---- MODULE Spec2Model ----
(***************************************************************************)
(* Model of qto-categorizer-ml: the command line entry point (scripts.py), *)
(* the Job context manager (jobs/base.py), the services (io/services.py)   *)
(* and the trainable models (core/models.py).                              *)
(***************************************************************************)
EXTENDS Integers, Sequences, FiniteSets, TLC

\* ------------------------------------------------------------------------
\* Bounds
\* ------------------------------------------------------------------------
MaxArgv == 4

MaxRows == 3

\* ------------------------------------------------------------------------
\* Generic helpers
\* ------------------------------------------------------------------------
SeqsUpTo(S, n) == UNION {[1..k -> S] : k \in 0..n}

Range(s) == {s[i] : i \in 1..Len(s)}

\* ------------------------------------------------------------------------
\* Command line (scripts.py)
\* ------------------------------------------------------------------------
\* Strings that name a config source; each can be passed as a positional
\* file or as an -e inline string.
Sources == {"c1", "c2", "c3", "c4"}

Flags == {"-e", "-s", "--"}

Tokens == Flags \cup Sources

JobKinds == {"TuningJob", "TrainingJob", "TransitionJob", "InferenceJob"}

\* Leaf paths of the nested settings object.
KindKey == "job.KIND"

LevelKey == "job.logger_service.level"

\* What parse_file / parse_string yield for each source: a config, written
\* as a map from leaf path to value.
Content ==
  [s \in Tokens |->
     CASE s = "c1" -> (KindKey :> "TrainingJob") @@ (LevelKey :> "DEBUG")
       [] s = "c2" -> (KindKey :> "InferenceJob")
       [] s = "c3" -> (LevelKey :> "INFO")
       [] s = "c4" -> (KindKey :> "UnknownJob")
       [] OTHER    -> (KindKey :> "unreadable")]

\* After "--" a flag is taken as a file name; no such file exists.
Readable(s) == s \in Sources

parse_file(file) == Content[file]

parse_string(string) == Content[string]

\* OmegaConf.merge of two configs: every leaf of both, the right one wins.
Merge2(a, b) ==
  [k \in (DOMAIN a) \cup (DOMAIN b) |-> IF k \in DOMAIN b THEN b[k] ELSE a[k]]

EmptyConfig == [k \in {} |-> "none"]

RECURSIVE MergeFrom(_, _, _)
MergeFrom(configs, i, acc) ==
  IF i > Len(configs) THEN acc
  ELSE MergeFrom(configs, i + 1, Merge2(acc, configs[i]))

merge_configs(configs) == MergeFrom(configs, 1, EmptyConfig)

\* The argparse parser declared in scripts.py: positional files (nargs "*"),
\* -e/--extras (nargs "*", action store, default []), -s/--schema.
\* st.mode is what the next plain string is collected into.
NoArgs ==
  [ok |-> TRUE, files |-> <<>>, extras |-> <<>>, schema |-> FALSE,
   mode |-> "none", filesDone |-> FALSE, dd |-> FALSE]

\* Variant: a repeated -e adds to the extras (action "extend").
ArgStepExtend(st, t) ==
  IF ~st.ok THEN st
  ELSE IF st.dd \/ t \in Sources THEN
    IF st.mode = "extras" THEN [st EXCEPT !.extras = Append(@, t)]
    ELSE IF st.mode = "files" THEN [st EXCEPT !.files = Append(@, t)]
    ELSE IF st.filesDone THEN [st EXCEPT !.ok = FALSE]
    ELSE [st EXCEPT !.files = <<t>>, !.mode = "files"]
  ELSE IF t = "--" THEN
    IF st.mode = "files" THEN [st EXCEPT !.dd = TRUE]
    ELSE IF st.filesDone THEN [st EXCEPT !.ok = FALSE]
    ELSE [st EXCEPT !.dd = TRUE, !.mode = "files"]
  ELSE IF t = "-e" THEN
    [st EXCEPT !.mode = "extras", !.filesDone = (@ \/ st.mode = "files")]
  ELSE
    [st EXCEPT !.schema = TRUE, !.mode = "none",
               !.filesDone = (@ \/ st.mode = "files")]

ArgStep(st, t) ==
  IF ~st.ok THEN st
  ELSE IF st.dd \/ t \in Sources THEN
    \* a plain argument string
    IF st.mode = "extras" THEN [st EXCEPT !.extras = Append(@, t)]
    ELSE IF st.mode = "files" THEN [st EXCEPT !.files = Append(@, t)]
    ELSE IF st.filesDone THEN [st EXCEPT !.ok = FALSE]
    ELSE [st EXCEPT !.files = <<t>>, !.mode = "files"]
  ELSE IF t = "--" THEN
    IF st.mode = "files" THEN [st EXCEPT !.dd = TRUE]
    ELSE IF st.filesDone THEN [st EXCEPT !.ok = FALSE]
    ELSE [st EXCEPT !.dd = TRUE, !.mode = "files"]
  ELSE IF t = "-e" THEN
    [st EXCEPT !.extras = <<>>, !.mode = "extras",
               !.filesDone = (@ \/ st.mode = "files")]
  ELSE
    [st EXCEPT !.schema = TRUE, !.mode = "none",
               !.filesDone = (@ \/ st.mode = "files")]

RECURSIVE ArgScan(_, _, _)
ArgScan(argv, i, st) ==
  IF i > Len(argv) THEN st ELSE ArgScan(argv, i + 1, ArgStep(st, argv[i]))

parse_args(argv) ==
  LET st == ArgScan(argv, 1, NoArgs)
  IN [ok |-> st.ok, files |-> st.files, extras |-> st.extras, schema |-> st.schema]

\* MainSettings.model_validate: the only field is job, a union discriminated
\* by KIND; extra keys are forbidden.
SettingsKeys == {KindKey, LevelKey}

\* Variant: the KIND tag is not checked against the union.
model_validate_any_kind(object_) ==
  /\ KindKey \in DOMAIN object_
  /\ DOMAIN object_ \subseteq SettingsKeys

model_validate(object_) ==
  /\ KindKey \in DOMAIN object_
  /\ object_[KindKey] \in JobKinds
  /\ DOMAIN object_ \subseteq SettingsKeys

\* Variant: the schema is only printed when nothing else is given.
SchemaRequestedAlone(a) == a.schema /\ a.files = <<>> /\ a.extras = <<>>

\* `if args.schema:` in main.
SchemaRequested(a) == a.schema

\* Variant: only the files are counted.
NoConfigsFilesOnly(files, strings) == Len(files) = 0 /\ Len(strings) > 0

\* `if len(files) == 0 and len(strings) == 0:` in main.
NoConfigs(files, strings) == Len(files) = 0 /\ Len(strings) = 0

\* Variant: the extras are put first.
ConfigListExtrasFirst(files, strings) == strings \o files

\* `[*files, *strings]` in main.
ConfigList(files, strings) == files \o strings

\* Exceptions a job's run() can raise.
RunErrors == {"ValueError", "KeyError"}

\* Job.__enter__: the services in the order they are started.
EnterStarts == <<"start_logger", "start_aws", "start_mlflow">>

\* Variant: the services are stopped in the order they were started.
ExitStopsStartOrder == <<"stop_logger", "stop_aws", "stop_mlflow">>

\* Job.__exit__: the services in the order they are stopped.
ExitStops == <<"stop_mlflow", "stop_aws", "stop_logger">>

\* Variant: __exit__ returns True.
ExitReturnTrue == TRUE

\* Job.__exit__: `return False  # re-raise`.
ExitReturn == FALSE

ParseEvents(a, k) ==
  SubSeq([i \in 1..Len(a.files) |-> "parse_file"]
           \o [i \in 1..Len(a.extras) |-> "parse_string"], 1, k)

\* Position, among the sources in reading order, of the first one that
\* cannot be read; 0 if all can.
FirstUnreadable(a) ==
  LET srcs == a.files \o a.extras
      bad == {i \in 1..Len(srcs) : ~Readable(srcs[i])}
  IN IF bad = {} THEN 0 ELSE CHOOSE i \in bad : \A j \in bad : i <= j

\* ------------------------------------------------------------------------
\* State
\* ------------------------------------------------------------------------
VARIABLES
  argv,      \* the argument list main is called with
  pc,        \* position in main
  args,      \* the argparse namespace
  config,    \* the merged config
  job,       \* KIND of the validated job, "none" before validation
  events,    \* calls made so far, in order
  stdout,    \* what was written to standard output
  result,    \* value returned by main ("0", "None"), "none" if it has not returned
  error,     \* exception that reached the caller of main, "none" otherwise
  pending    \* exception raised inside the with body, "none" otherwise

mainVars == <<argv, pc, args, config, job, events, stdout, result, error, pending>>

InitMainVars ==
  /\ argv \in SeqsUpTo(Tokens, MaxArgv)
  /\ pc = "main"
  /\ args = parse_args(<<>>)
  /\ config = EmptyConfig
  /\ job = "none"
  /\ events = <<>>
  /\ stdout = "none"
  /\ result = "none"
  /\ error = "none"
  /\ pending = "none"

Raise(e) ==
  /\ error' = e
  /\ pc' = "done"

\* main, from parse_args to merge_configs.
MainParse ==
  /\ pc = "main"
  /\ LET a == parse_args(argv)
         files == [i \in 1..Len(a.files) |-> parse_file(a.files[i])]
         strings == [i \in 1..Len(a.extras) |-> parse_string(a.extras[i])]
         n == Len(a.files) + Len(a.extras)
     IN /\ args' = a
        /\ IF ~a.ok THEN
             /\ Raise("SystemExit")
             /\ UNCHANGED <<config, events, stdout, result>>
           ELSE IF SchemaRequested(a) THEN
             /\ stdout' = "schema"
             /\ result' = "0"
             /\ pc' = "done"
             /\ UNCHANGED <<config, events, error>>
           ELSE
             \* k > 0: reading the k-th source raises
             \E k \in IF FirstUnreadable(a) = 0 THEN 0..n
                      ELSE 1..FirstUnreadable(a) :
               IF k > 0 THEN
                 /\ events' = ParseEvents(a, k)
                 /\ Raise("OSError")
                 /\ UNCHANGED <<config, stdout, result>>
               ELSE IF NoConfigs(files, strings) THEN
                 /\ events' = ParseEvents(a, n)
                 /\ Raise("RuntimeError: No configs provided.")
                 /\ UNCHANGED <<config, stdout, result>>
               ELSE
                 /\ events' = Append(ParseEvents(a, n), "merge_configs")
                 /\ config' = merge_configs(ConfigList(files, strings))
                 /\ pc' = "validate"
                 /\ UNCHANGED <<stdout, result, error>>
  /\ UNCHANGED <<argv, job, pending>>

\* main: to_object and MainSettings.model_validate.
MainValidate ==
  /\ pc = "validate"
  /\ events' = Append(events, "model_validate")
  /\ IF model_validate(config) THEN
       /\ job' = config[KindKey]
       /\ pc' = "enter"
       /\ UNCHANGED error
     ELSE
       /\ Raise("ValidationError")
       /\ UNCHANGED job
  /\ UNCHANGED <<argv, args, config, stdout, result, pending>>

\* Variant: the services that started are stopped when a later one fails.
JobEnterStopping ==
  /\ pc = "enter"
  /\ \E k \in 0..Len(EnterStarts) :
       IF k = Len(EnterStarts) THEN
         /\ events' = events \o EnterStarts
         /\ pc' = "run"
         /\ UNCHANGED error
       ELSE
         /\ events' = events \o SubSeq(EnterStarts, 1, k)
                         \o SubSeq(ExitStops, Len(ExitStops) - k + 1, Len(ExitStops))
         /\ Raise("StartError")
  /\ UNCHANGED <<argv, args, config, job, stdout, result, pending>>

\* Job.__enter__: k services start; k < 3 means the next start raises.
JobEnter ==
  /\ pc = "enter"
  /\ \E k \in 0..Len(EnterStarts) :
       /\ events' = events \o SubSeq(EnterStarts, 1, k)
       /\ IF k = Len(EnterStarts) THEN
            /\ pc' = "run"
            /\ UNCHANGED error
          ELSE Raise("StartError")
  /\ UNCHANGED <<argv, args, config, job, stdout, result, pending>>

\* runner.run() in the with body.
JobRun ==
  /\ pc = "run"
  /\ events' = Append(events, "run")
  /\ \E e \in {"none"} \cup RunErrors : pending' = e
  /\ pc' = "exit"
  /\ UNCHANGED <<argv, args, config, job, stdout, result, error>>

\* Job.__exit__, then the end of the with statement in main.
JobExit ==
  /\ pc = "exit"
  /\ events' = events \o ExitStops
  /\ pc' = "done"
  /\ IF pending = "none" THEN
       /\ result' = "0"
       /\ UNCHANGED error
     ELSE IF ExitReturn THEN
       \* exception suppressed: main falls off its end
       /\ result' = "None"
       /\ UNCHANGED error
     ELSE
       /\ error' = pending
       /\ UNCHANGED result
  /\ UNCHANGED <<argv, args, config, job, stdout, pending>>

NextMain == MainParse \/ MainValidate \/ JobEnter \/ JobRun \/ JobExit

\* ------------------------------------------------------------------------
\* Models (core/models.py)
\* ------------------------------------------------------------------------
ModelKinds == {"BaselineModel", "SKLearnPipelineModel"}

\* Merchants of the training rows; "C" only occurs in prediction inputs.
Merchants == {"A", "B"}

InputMerchants == Merchants \cup {"C"}

\* The labels, in their sort order.
LabelOrder == <<"X", "Y">>

Labels == Range(LabelOrder)

Rows == [MERCHANT_NAME : Merchants, CATEGORY : Labels]

Datasets == SeqsUpTo(Rows, MaxRows) \ {<<>>}

\* Prediction inputs: one row.
Batches == {<<m>> : m \in InputMerchants}

InputsOf(D) == [i \in 1..Len(D) |-> D[i].MERCHANT_NAME]

TargetsOf(D) == [i \in 1..Len(D) |-> D[i].CATEGORY]

Max(S) == CHOOSE x \in S : \A y \in S : y <= x

Min(S) == CHOOSE x \in S : \A y \in S : x <= y

IndexOf(seq, x) == CHOOSE i \in 1..Len(seq) : seq[i] = x

\* sklearn LabelEncoder.fit: classes_ are the distinct labels, sorted.
le_fit(y) == SelectSeq(LabelOrder, LAMBDA l : l \in Range(y))

\* sklearn LabelEncoder.transform: position of each label in classes_
\* (from 0); a label that is not in classes_ is an error.
le_transform(classes_, y) ==
  IF Range(y) \subseteq Range(classes_)
  THEN [status |-> "ok", values |-> [i \in 1..Len(y) |-> IndexOf(classes_, y[i]) - 1]]
  ELSE [status |-> "ValueError", values |-> <<>>]

\* sklearn LabelEncoder.inverse_transform: classes_[code]; a code outside
\* 0..len(classes_)-1 is an error.
le_inverse_transform(classes_, codes) ==
  IF Range(codes) \subseteq 0..(Len(classes_) - 1)
  THEN [status |-> "ok", values |-> [i \in 1..Len(codes) |-> classes_[codes[i] + 1]]]
  ELSE [status |-> "ValueError", values |-> <<>>]

\* MostFrequentCategoryByMerchant.transform: nan_to_num(outputs, nan=25.0).
NanCode == 25

\* groupby(["MERCHANT_NAME", "CATEGORY"]).size()
GroupSize(X, y, m, c) == Cardinality({i \in 1..Len(X) : X[i] = m /\ y[i] = c})

\* Variant: sort_values("count") ascending.
MostFrequentFitAscending(X, y, ties) ==
  [m \in Range(X) |->
     LET cats == {y[i] : i \in {j \in 1..Len(X) : X[j] = m}}
         least == Min({GroupSize(X, y, m, c) : c \in cats})
         bottom == {c \in cats : GroupSize(X, y, m, c) = least}
     IN IF ties = "first" THEN Min(bottom) ELSE Max(bottom)]

\* MostFrequentCategoryByMerchant.fit: per merchant the category of the
\* first row left by sort_values("count", ascending=False) and
\* drop_duplicates("MERCHANT_NAME"). The groups come out of groupby ordered
\* by category; ties puts equal counts in that order ("first") or reversed
\* ("last"), depending on the sort algorithm.
MostFrequentFit(X, y, ties) ==
  [m \in Range(X) |->
     LET cats == {y[i] : i \in {j \in 1..Len(X) : X[j] = m}}
         best == Max({GroupSize(X, y, m, c) : c \in cats})
         top == {c \in cats : GroupSize(X, y, m, c) = best}
     IN IF ties = "first" THEN Min(top) ELSE Max(top)]

\* MostFrequentCategoryByMerchant.transform
MostFrequentTransform(merchant_to_category_, X) ==
  [i \in 1..Len(X) |->
     IF X[i] \in DOMAIN merchant_to_category_
     THEN merchant_to_category_[X[i]] ELSE NanCode]

NoEncoder == [set |-> FALSE, classes_ |-> <<>>]

NoPipeline == [set |-> FALSE, state |-> <<>>]

\* BaselineModel.fit / SKLearnPipelineModel.fit: the (le, pipeline) pair
\* they leave in the model. Of the fitted sklearn pipeline only its
\* existence is kept.
FittedState(k, inputs, targets, ties) ==
  LET classes_ == le_fit(targets)
      targets_ == le_transform(classes_, targets).values
  IN [le |-> [set |-> TRUE, classes_ |-> classes_],
      pipeline |->
        [set |-> TRUE,
         state |-> IF k = "BaselineModel"
                   THEN MostFrequentFit(inputs, targets_, ties)
                   ELSE <<>>]]

\* Variant: the lookup table is updated in place instead of rebuilt.
FitModelUpdate(k, old_le, old_pipeline, inputs, targets, ties) ==
  LET new == FittedState(k, inputs, targets, ties)
  IN IF k = "BaselineModel" /\ old_pipeline.set
     THEN [new EXCEPT !.pipeline.state = Merge2(old_pipeline.state, @)]
     ELSE new

\* Model.fit as applied to a model holding (old_le, old_pipeline).
FitModel(k, old_le, old_pipeline, inputs, targets, ties) ==
  FittedState(k, inputs, targets, ties)

\* Codes the fitted sklearn classifier can give a batch: one of the classes
\* seen in fit per row.
ClassifierCodes(classes_, inputs) == [1..Len(inputs) -> 0..(Len(classes_) - 1)]

\* BaselineModel.predict / SKLearnPipelineModel.predict: the possible
\* results on a model holding (le_, pipeline_).
PredictResults(k, le_, pipeline_, inputs) ==
  IF ~pipeline_.set
  THEN {[status |-> "AttributeError", values |-> <<>>]}
  ELSE IF k = "BaselineModel"
  THEN {le_inverse_transform(le_.classes_,
                             MostFrequentTransform(pipeline_.state, inputs))}
  ELSE {le_inverse_transform(le_.classes_, codes) :
          codes \in ClassifierCodes(le_.classes_, inputs)}

VARIABLES
  KIND,       \* the model variant
  ties,       \* order sort_values leaves equal counts in
  le,         \* Model.le
  pipeline,   \* Model.pipeline
  fitted_on,  \* the dataset of the last fit
  stale,      \* the last fit found state learned from data it was not given
  call        \* the last call on the model and its result

modelVars == <<KIND, ties, le, pipeline, fitted_on, stale, call>>

NoCall == [op |-> "none", inputs |-> <<>>, status |-> "none", values |-> <<>>]

InitModelVars ==
  /\ KIND \in ModelKinds
  /\ ties \in {"first", "last"}
  /\ le = NoEncoder
  /\ pipeline = NoPipeline
  /\ fitted_on = <<>>
  /\ stale = FALSE
  /\ call = NoCall

\* The model holds a label or a merchant entry that D does not have.
HasStale(k, le_, pipeline_, D) ==
  \/ ~(Range(le_.classes_) \subseteq Range(TargetsOf(D)))
  \/ k = "BaselineModel" /\ ~(DOMAIN pipeline_.state \subseteq Range(InputsOf(D)))

\* model.fit(inputs, targets)
Fit ==
  \E D \in Datasets :
    LET new == FitModel(KIND, le, pipeline, InputsOf(D), TargetsOf(D), ties)
    IN /\ le' = new.le
       /\ pipeline' = new.pipeline
       /\ fitted_on' = D
       /\ stale' = (pipeline.set /\ HasStale(KIND, le, pipeline, D))
       /\ call' = [op |-> "fit", inputs |-> <<>>, status |-> "ok",
                   values |-> <<>>]
       /\ UNCHANGED <<KIND, ties>>

\* model.predict(inputs)
Predict ==
  \E inputs \in Batches :
    \E r \in PredictResults(KIND, le, pipeline, inputs) :
      /\ call' = [op |-> "predict", inputs |-> inputs, status |-> r.status,
                  values |-> r.values]
      /\ UNCHANGED <<KIND, ties, le, pipeline, fitted_on, stale>>

NextModel == Fit \/ Predict

\* ------------------------------------------------------------------------
\* utils/splitters.py: TrainTestSplitter
\* ------------------------------------------------------------------------
MaxSplitRows == 4

Ceil(a, b) == (a + b - 1) \div b

\* test_size: int | float; a float is held in hundredths (20 is 0.2).
TestSizes ==
  {[kind |-> "int", value |-> v] : v \in {0, 1, 2}}
    \cup {[kind |-> "float", value |-> v] : v \in {20, 50}}

\* rng.permutation(n): the index arrays are cut from a shuffle of 0..n-1.
Shuffles(n) ==
  {p \in [1..n -> 0..(n - 1)] : \A i, j \in 1..n : p[i] = p[j] => i = j}

\* sklearn _validate_shuffle_split, train_size=None.
TestSizeError(n, test_size) ==
  IF test_size.kind = "int"
  THEN test_size.value >= n \/ test_size.value <= 0
  ELSE test_size.value <= 0 \/ test_size.value >= 100

n_test(n, test_size) ==
  IF test_size.kind = "int" THEN test_size.value
  ELSE Ceil(test_size.value * n, 100)

n_train(n, test_size) == n - n_test(n, test_size)

ClassCount(y, c) == Cardinality({i \in DOMAIN y : y[i] = c})

\* StratifiedShuffleSplit: every class needs two members, and each side
\* room for one member of every class.
StratifyError(y, test_size) ==
  LET n_classes == Cardinality(Range(y))
  IN \/ \E c \in Range(y) : ClassCount(y, c) < 2
     \/ n_train(Len(y), test_size) < n_classes
     \/ n_test(Len(y), test_size) < n_classes

SplitFails(targets, test_size, stratify) ==
  \/ TestSizeError(Len(targets), test_size)
  \/ n_train(Len(targets), test_size) = 0
  \/ stratify /\ StratifyError(targets, test_size)

\* The variant keeps the test positions in the train array as well.
train_test_split_overlap(index, test_size) ==
  [train |-> index, test |-> SubSeq(index, 1, n_test(Len(index), test_size))]

\* The pair cut from one shuffle: test first, train the rest.
train_test_split(index, test_size) ==
  [train |-> SubSeq(index, n_test(Len(index), test_size) + 1, Len(index)),
   test |-> SubSeq(index, 1, n_test(Len(index), test_size))]

\* list(splitter.split(inputs, targets)): the pairs the generator yields,
\* for every shuffle the seed may give.
SplitResults(targets, test_size, stratify) ==
  IF SplitFails(targets, test_size, stratify)
  THEN {[status |-> "ValueError", splits |-> <<>>]}
  ELSE {[status |-> "ok", splits |-> <<train_test_split(index, test_size)>>] :
          index \in Shuffles(Len(targets))}

get_n_splits == 1

VARIABLES sp

SpIdle == [pc |-> "idle"]

InitSplit ==
  \E targets \in SeqsUpTo(Labels, MaxSplitRows), test_size \in TestSizes,
     stratify \in BOOLEAN :
    sp = [pc |-> "ready", targets |-> targets, test_size |-> test_size,
          stratify |-> stratify, status |-> "none", splits |-> <<>>,
          n_splits |-> 0]

Split ==
  /\ sp.pc = "ready"
  /\ sp.status = "none"
  /\ \E r \in SplitResults(sp.targets, sp.test_size, sp.stratify) :
       sp' = [sp EXCEPT !.status = r.status, !.splits = r.splits]

GetNSplits ==
  /\ sp.pc = "ready"
  /\ sp.n_splits = 0
  /\ sp' = [sp EXCEPT !.n_splits = get_n_splits]

NextSplit == Split \/ GetNSplits

\* ------------------------------------------------------------------------
\* utils/signers.py: ManualSigner and PanderaSigner
\* ------------------------------------------------------------------------
MaxSpecs == 2

\* mlflow.types.DataType: the type names a column spec accepts.
DataType ==
  {"boolean", "integer", "long", "float", "double", "string", "binary",
   "datetime"}

SpecNames == {"a", "b"}

\* "str" is not a DataType name.
SpecTypes == {"double", "string", "str"}

SpecLists ==
  SeqsUpTo([name : SpecNames, type : SpecTypes], MaxSpecs) \ {<<>>}

\* The dataframes handed to sign.
Frames == {"no rows", "rows"}

\* json.dumps of a list of specs: one object per spec, as key/value text.
json_dumps(specs) ==
  [i \in DOMAIN specs |-> <<"name", specs[i].name, "type", specs[i].type>>]

\* ColSpec(name=..., type=...): the type name is looked up in DataType.
ColSpec(name, type) ==
  [name |-> name, type |-> [DataType |-> type], required |-> TRUE]

\* mlflow Schema.from_json: parse the text and build one ColSpec per object.
Schema_from_json(text) ==
  IF \E i \in DOMAIN text : text[i][4] \notin DataType
  THEN [status |-> "MlflowException", columns |-> <<>>]
  ELSE [status |-> "ok",
        columns |-> [i \in DOMAIN text |-> ColSpec(text[i][2], text[i][4])]]

NoSignature == [inputs |-> <<>>, outputs |-> <<>>]

Signature_from_dict(signature_dict) ==
  LET ins == Schema_from_json(signature_dict.inputs)
      outs == Schema_from_json(signature_dict.outputs)
  IN IF ins.status # "ok" \/ outs.status # "ok"
     THEN [status |-> "MlflowException", signature |-> NoSignature]
     ELSE [status |-> "ok",
           signature |-> [inputs |-> ins.columns, outputs |-> outs.columns]]

\* The variant files each json text under the other key.
ManualSignSwapped(inputs_specs, outputs_specs, inputs, outputs) ==
  Signature_from_dict([inputs |-> json_dumps(outputs_specs),
                       outputs |-> json_dumps(inputs_specs)])

\* ManualSigner.sign: the dataframes are not read.
ManualSign(inputs_specs, outputs_specs, inputs, outputs) ==
  Signature_from_dict([inputs |-> json_dumps(inputs_specs),
                       outputs |-> json_dumps(outputs_specs)])

\* core/schemas.py: what each name of the module is bound to.
SchemaClasses ==
  {"Schema", "InputsSchema", "FeatInputsSchema", "TargetsSchema",
   "OutputsSchema"}

SchemaAliases == {"Inputs", "Targets", "Outputs"}

SchemaModules == {"datetime", "T", "pd", "pa", "papd", "padt"}

SchemaTypeVars == {"TSchema"}

\* Names a configuration may give; "NoSchema" is bound to nothing.
SchemaNames ==
  {"InputsSchema", "OutputsSchema", "FeatInputsSchema", "Inputs", "pd",
   "TSchema", "NoSchema"}

\* getattr(schemas, value, None)
schemas_getattr(value) ==
  IF value \in SchemaClasses THEN "Schema subclass"
  ELSE IF value \in SchemaAliases THEN "generic alias"
  ELSE IF value \in SchemaModules THEN "module"
  ELSE IF value \in SchemaTypeVars THEN "TypeVar"
  ELSE "None"

\* check_schema_name: issubclass raises TypeError when its first argument
\* is not a class.
check_schema_name(value) ==
  LET schema == schemas_getattr(value)
  IN IF schema = "None" THEN "ValueError"
     ELSE IF schema # "Schema subclass" THEN "TypeError"
     ELSE "ok"

\* PanderaSigner(inputs_schema_name=..., outputs_schema_name=...): pydantic
\* gathers the ValueErrors of the validators; any other exception leaves
\* the constructor as it is.
PanderaSignerNew(inputs_schema_name, outputs_schema_name) ==
  LET checks == {check_schema_name(inputs_schema_name),
                 check_schema_name(outputs_schema_name)}
  IN IF "TypeError" \in checks THEN "TypeError"
     ELSE IF "ValueError" \in checks THEN "ValueError"
     ELSE "ok"

\* The columns of each schema class, in declaration order.
SchemaColumns(name) ==
  IF name = "InputsSchema"
  THEN <<[name |-> "TRANSACTION_ID", dtype |-> "String"],
         [name |-> "DATE_EMITTED", dtype |-> "DateTime"],
         [name |-> "AMOUNT", dtype |-> "Float"],
         [name |-> "TYPE_OF_PAYMENT", dtype |-> "String"],
         [name |-> "MERCHANT_NAME", dtype |-> "String"],
         [name |-> "DESCRIPTION", dtype |-> "String"],
         [name |-> "SIDE", dtype |-> "Int"],
         [name |-> "CATEGORY", dtype |-> "String"]>>
  ELSE IF name = "FeatInputsSchema"
  THEN <<[name |-> "AMOUNT", dtype |-> "Float"],
         [name |-> "TYPE_OF_PAYMENT", dtype |-> "String"],
         [name |-> "MERCHANT_NAME", dtype |-> "String"],
         [name |-> "DESCRIPTION", dtype |-> "String"]>>
  ELSE IF name = "TargetsSchema"
  THEN <<[name |-> "CATEGORY", dtype |-> "String"]>>
  ELSE IF name = "OutputsSchema"
  THEN <<[name |-> "prediction", dtype |-> "String"]>>
  ELSE <<>>

\* str(column.dtype) of the pandas engine.
dtype_str(dtype) ==
  IF dtype = "String" THEN "str"
  ELSE IF dtype = "DateTime" THEN "datetime64[ns]"
  ELSE IF dtype = "Float" THEN "float64"
  ELSE "int64"

PANDERA_MLFLOW_MAPPING ==
  [k \in {"bool", "int", "int8", "int16", "int32", "int64", "uint", "uint8",
          "uint16", "uint32", "uint64", "float", "float16", "float32",
          "float64", "category", "string", "date", "timestamp", "datetime",
          "binary"} |->
     CASE k = "bool" -> "boolean"
       [] k \in {"int", "int64", "uint", "uint64"} -> "long"
       [] k \in {"int8", "int16", "int32", "uint8", "uint16", "uint32"} ->
            "integer"
       [] k \in {"float", "float16", "float32"} -> "float"
       [] k = "float64" -> "double"
       [] k \in {"category", "string"} -> "string"
       [] k \in {"date", "timestamp", "datetime"} -> "datetime"
       [] OTHER -> "binary"]

\* _convert_pandera_to_mlflow: a dtype name that is no key of the table
\* fails the subscript with KeyError.
convert_pandera_to_mlflow(name) ==
  LET cols == SchemaColumns(name)
  IN IF \E i \in DOMAIN cols :
          dtype_str(cols[i].dtype) \notin DOMAIN PANDERA_MLFLOW_MAPPING
     THEN [status |-> "KeyError", columns |-> <<>>]
     ELSE [status |-> "ok",
           columns |->
             [i \in DOMAIN cols |->
                ColSpec(cols[i].name,
                        PANDERA_MLFLOW_MAPPING[dtype_str(cols[i].dtype)])]]

\* PanderaSigner.sign
PanderaSign(inputs_schema_name, outputs_schema_name, inputs, outputs) ==
  LET ins == convert_pandera_to_mlflow(inputs_schema_name)
      outs == convert_pandera_to_mlflow(outputs_schema_name)
  IN IF ins.status # "ok"
     THEN [status |-> ins.status, signature |-> NoSignature]
     ELSE IF outs.status # "ok"
     THEN [status |-> outs.status, signature |-> NoSignature]
     ELSE [status |-> "ok",
           signature |-> [inputs |-> ins.columns, outputs |-> outs.columns]]

VARIABLES sg

SgIdle == [pc |-> "idle"]

InitSign == sg = [pc |-> "new"]

NewManualSigner ==
  /\ sg.pc = "new"
  /\ \E inputs_specs \in SpecLists, outputs_specs \in SpecLists :
       sg' = [pc |-> "built", KIND |-> "ManualSigner",
              inputs_specs |-> inputs_specs, outputs_specs |-> outputs_specs]

NewPanderaSigner ==
  /\ sg.pc = "new"
  /\ \E inputs_schema_name \in SchemaNames, outputs_schema_name \in SchemaNames :
       LET r == PanderaSignerNew(inputs_schema_name, outputs_schema_name)
       IN sg' = [pc |-> IF r = "ok" THEN "built" ELSE "failed",
                 KIND |-> "PanderaSigner", built |-> r,
                 inputs_schema_name |-> inputs_schema_name,
                 outputs_schema_name |-> outputs_schema_name]

Sign ==
  /\ sg.pc = "built"
  /\ \E inputs \in Frames, outputs \in Frames :
       LET r == IF sg.KIND = "ManualSigner"
                THEN ManualSign(sg.inputs_specs, sg.outputs_specs,
                                inputs, outputs)
                ELSE PanderaSign(sg.inputs_schema_name,
                                 sg.outputs_schema_name, inputs, outputs)
       IN sg' = [inputs |-> inputs, outputs |-> outputs,
                 status |-> r.status, signature |-> r.signature] @@
                [sg EXCEPT !.pc = "signed"]

NextSign == NewManualSigner \/ NewPanderaSigner \/ Sign

\* ------------------------------------------------------------------------
\* jobs/transition.py: TransitionJob
\* ------------------------------------------------------------------------
MaxVersion == 10

\* Version numbers a registry may hold.
VersionNumbers == {2} \cup (9..MaxVersion)

\* str(n): a model version carries its number as a decimal string, held
\* here as the sequence of its digits.
RECURSIVE str(_)
str(n) == IF n < 10 THEN <<n>> ELSE str(n \div 10) \o <<n % 10>>

\* int(s)
RECURSIVE int(_)
int(s) ==
  IF Len(s) = 1 THEN s[1]
  ELSE 10 * int(SubSeq(s, 1, Len(s) - 1)) + s[Len(s)]

\* s < t on strings: by the first character that differs, a proper prefix
\* being smaller.
RECURSIVE StrLess(_, _)
StrLess(s, t) ==
  IF t = <<>> THEN FALSE
  ELSE IF s = <<>> THEN TRUE
  ELSE IF s[1] # t[1] THEN s[1] < t[1]
  ELSE StrLess(Tail(s), Tail(t))

Stages == {"None", "Staging", "Production", "Archived"}

\* A registered model: the stage of each version it holds.
Registries == [VersionNumbers -> Stages \cup {"absent"}]

ModelVersions(registry) ==
  {[version |-> str(n), current_stage |-> registry[n]] :
     n \in {m \in VersionNumbers : registry[m] # "absent"}}

\* client.get_latest_versions(name, stages): for each stage asked for (all
\* stages for None), the version of that stage with the highest number.
get_latest_versions(registry, stages) ==
  LET asked == IF stages.set THEN stages.value ELSE Stages
  IN {v \in ModelVersions(registry) :
        /\ v.current_stage \in asked
        /\ \A w \in ModelVersions(registry) :
             w.current_stage = v.current_stage => int(w.version) <= int(v.version)}

\* client.get_model_version(name, version)
get_model_version(registry, version) ==
  {v \in ModelVersions(registry) : v.version = str(version)}

\* The variant compares the version strings themselves.
max_version_str(versions) ==
  CHOOSE v \in versions :
    \A w \in versions : w = v \/ StrLess(w.version, v.version)

\* max(versions, key=lambda v: int(v.version))
max_version(versions) ==
  CHOOSE v \in versions : \A w \in versions : int(w.version) <= int(v.version)

\* The variant falls back on the versions of every stage when the
\* configured stages have none.
from_version_any_stage(registry, version, latest_version_stages) ==
  IF ~version.set
  THEN LET latest == get_latest_versions(registry, latest_version_stages)
           any == IF latest # {} THEN latest
                  ELSE get_latest_versions(registry, [set |-> FALSE])
       IN IF any = {} THEN [status |-> "ValueError"]
          ELSE [status |-> "ok", version |-> max_version(any).version]
  ELSE LET found == get_model_version(registry, version.value)
       IN IF found = {} THEN [status |-> "MlflowException"]
          ELSE [status |-> "ok", version |-> (CHOOSE v \in found : TRUE).version]

\* The version run() settles on, or the exception it ends with.
from_version(registry, version, latest_version_stages) ==
  IF ~version.set
  THEN LET latest == get_latest_versions(registry, latest_version_stages)
       IN IF latest = {} THEN [status |-> "ValueError"]
          ELSE [status |-> "ok", version |-> max_version(latest).version]
  ELSE LET found == get_model_version(registry, version.value)
       IN IF found = {} THEN [status |-> "MlflowException"]
          ELSE [status |-> "ok", version |-> (CHOOSE v \in found : TRUE).version]

\* client.transition_model_version_stage: the version takes the stage, and
\* with archive_existing_versions the others of that stage are archived.
transition_model_version_stage(registry, stage, version, archive_existing_versions) ==
  [n \in VersionNumbers |->
     IF str(n) = version THEN stage
     ELSE IF archive_existing_versions /\ registry[n] = stage THEN "Archived"
     ELSE registry[n]]

NoValue == [set |-> FALSE]

Some(v) == [set |-> TRUE, value |-> v]

TransitionVersions == {NoValue} \cup {Some(n) : n \in VersionNumbers \cup {1}}

TransitionStages == {"Staging", "Production"}

LatestVersionStages ==
  {NoValue, Some({"Staging"}), Some({"Production"}), Some({"None", "Staging"})}

VARIABLES tn

TnIdle == [pc |-> "idle"]

InitTransition ==
  \E registry \in Registries, stage \in TransitionStages,
     version \in TransitionVersions, archive \in BOOLEAN,
     stages \in LatestVersionStages :
    tn = [pc |-> "run", registry |-> registry, before |-> registry,
          stage |-> stage, version |-> version,
          archive_existing_versions |-> archive,
          latest_version_stages |-> stages,
          requests |-> <<>>, status |-> "none"]

TransitionRun ==
  /\ tn.pc = "run"
  /\ LET from == from_version(tn.registry, tn.version, tn.latest_version_stages)
     IN IF from.status # "ok"
        THEN tn' = [tn EXCEPT !.pc = "done", !.status = from.status]
        ELSE tn' = [tn EXCEPT
               !.pc = "done",
               !.status = "ok",
               !.requests = Append(@, [stage |-> tn.stage,
                                       version |-> from.version,
                                       archive_existing_versions |->
                                         tn.archive_existing_versions]),
               !.registry = transition_model_version_stage(
                              @, tn.stage, from.version,
                              tn.archive_existing_versions)]

NextTransition == TransitionRun

\* ------------------------------------------------------------------------
\* jobs/inference.py: InferenceJob
\* ------------------------------------------------------------------------
MaxInferRows == 2

\* A raw input row: the description may be missing ("NaN"), the amount may
\* break the schema (AMOUNT must be above 0).
InferRows ==
  [MERCHANT_NAME : {"A", "C"}, DESCRIPTION : {"text", "NaN"}, AMOUNT : {0, 1}]

InferFiles == SeqsUpTo(InferRows, MaxInferRows)

IsNa(row) == row.DESCRIPTION = "NaN"

\* The variant drops nothing.
dropna_none(frame) == frame

\* DataFrame.dropna(): the rows without a missing value, in order.
dropna(frame) == SelectSeq(frame, LAMBDA row : ~IsNa(row))

\* InputsSchema.check
InputsSchemaCheck(frame) ==
  IF \E i \in DOMAIN frame : frame[i].AMOUNT <= 0
  THEN "SchemaError" ELSE "ok"

registry_name == "registry"

VersionsOrStages == {"Production", "1", "2"}

\* registries.uri_for_model: "models:/{name}/{version_or_stage}"
uri_for_model(model_name, version_or_stage) ==
  <<"models:", model_name, version_or_stage>>

\* What the registry holds: a baseline model saved after a fit, under
\* version 1 and under the stage Production; there is no version 2.
RegisteredModel ==
  FittedState("BaselineModel", <<"A", "A", "B">>, <<"X", "X", "Y">>, "first")

\* loader.load(uri)
loader_load(uri) ==
  IF uri \in {uri_for_model(registry_name, "1"),
              uri_for_model(registry_name, "Production")}
  THEN [status |-> "ok", model |-> RegisteredModel]
  ELSE [status |-> "MlflowException", model |-> <<>>]

\* run() from top to bottom.
InferencePlan ==
  <<"read", "dropna", "check", "uri_for_model", "load", "predict", "write">>

VARIABLES inf

InfIdle == [pc |-> "idle"]

InitInference ==
  \E file \in InferFiles, version_or_stage \in VersionsOrStages :
    inf = [pc |-> 1, file |-> file, version_or_stage |-> version_or_stage,
           frame |-> <<>>, uri |-> <<>>, model |-> <<>>, outputs |-> <<>>,
           written |-> <<>>, steps |-> <<>>, status |-> "running"]

InfAt(step) ==
  /\ inf.status = "running"
  /\ inf.pc \in DOMAIN InferencePlan
  /\ InferencePlan[inf.pc] = step

InfDone(rec) ==
  inf' = [rec EXCEPT !.pc = @ + 1,
                     !.steps = Append(@, InferencePlan[inf.pc]),
                     !.status = IF inf.pc = Len(InferencePlan)
                                THEN "returned" ELSE "running"]

InfRaise(e) ==
  inf' = [inf EXCEPT !.steps = Append(@, InferencePlan[inf.pc]),
                     !.status = e]

\* self.inputs.read(): the file may be unreadable.
InfRead ==
  /\ InfAt("read")
  /\ \/ InfDone([inf EXCEPT !.frame = inf.file])
     \/ InfRaise("OSError")

InfDropna ==
  /\ InfAt("dropna")
  /\ InfDone([inf EXCEPT !.frame = dropna(@)])

InfCheck ==
  /\ InfAt("check")
  /\ IF InputsSchemaCheck(inf.frame) = "ok"
     THEN InfDone(inf)
     ELSE InfRaise(InputsSchemaCheck(inf.frame))

InfUri ==
  /\ InfAt("uri_for_model")
  /\ InfDone([inf EXCEPT !.uri = uri_for_model(registry_name, inf.version_or_stage)])

InfLoad ==
  /\ InfAt("load")
  /\ LET r == loader_load(inf.uri)
     IN IF r.status = "ok"
        THEN InfDone([inf EXCEPT !.model = r.model])
        ELSE InfRaise(r.status)

InfPredict ==
  /\ InfAt("predict")
  /\ \E r \in PredictResults("BaselineModel", inf.model.le, inf.model.pipeline,
                             [i \in DOMAIN inf.frame |-> inf.frame[i].MERCHANT_NAME]) :
       IF r.status = "ok"
       THEN InfDone([inf EXCEPT !.outputs = r.values])
       ELSE InfRaise(r.status)

\* self.outputs.write(pd.DataFrame({"predicted_class": outputs})): the
\* writer is called and may fail.
InfWrite ==
  /\ InfAt("write")
  /\ LET rec == [inf EXCEPT !.written =
                   Append(@, [i \in DOMAIN inf.outputs |->
                                [predicted_class |-> inf.outputs[i]]])]
     IN \/ InfDone(rec)
        \/ inf' = [rec EXCEPT !.steps = Append(@, "write"), !.status = "OSError"]

NextInference ==
  InfRead \/ InfDropna \/ InfCheck \/ InfUri \/ InfLoad \/ InfPredict \/ InfWrite

\* ------------------------------------------------------------------------
\* jobs/training.py: TrainingJob, jobs/tuning.py: TuningJob,
\* io/services.py: MlflowService.run_context
\* ------------------------------------------------------------------------
MaxTrainRows == 3

\* A row of the input file, by number. Row 0 has the AMOUNT 0, which breaks
\* the schema; the others have the AMOUNT 1, the CATEGORY "X" or "Y", and
\* all of, or all but one of, MERCHANT_NAME, DESCRIPTION and
\* TYPE_OF_PAYMENT.
TrainRowNumbers == 0..8

TrainRow(k) ==
  IF k = 0
  THEN [AMOUNT |-> 0, TYPE_OF_PAYMENT |-> "card", MERCHANT_NAME |-> "A",
        DESCRIPTION |-> "text", CATEGORY |-> "X"]
  ELSE [AMOUNT |-> 1,
        TYPE_OF_PAYMENT |-> IF (k - 1) \div 2 = 3 THEN "NaN" ELSE "card",
        MERCHANT_NAME |-> IF (k - 1) \div 2 = 1 THEN "NaN" ELSE "A",
        DESCRIPTION |-> IF (k - 1) \div 2 = 2 THEN "NaN" ELSE "text",
        CATEGORY |-> IF (k - 1) % 2 = 0 THEN "X" ELSE "Y"]

\* The files: rows in ascending number; the split shuffles them anyway.
TrainFiles ==
  {[i \in DOMAIN s |-> TrainRow(s[i])] :
     s \in {t \in SeqsUpTo(TrainRowNumbers, MaxTrainRows) :
              \A i \in 1..(Len(t) - 1) : t[i] <= t[i + 1]}}

\* DataFrame.drop_duplicates(): the first of equal rows stays.
drop_duplicates(frame) ==
  LET keep == {i \in DOMAIN frame : \A j \in 1..(i - 1) : frame[j] # frame[i]}
      RECURSIVE pick(_)
      pick(i) == IF i > Len(frame) THEN <<>>
                 ELSE IF i \in keep THEN <<frame[i]>> \o pick(i + 1)
                 ELSE pick(i + 1)
  IN pick(1)

\* FeatInputsSchema.check
FeatInputsSchemaCheck(frame) ==
  IF \E i \in DOMAIN frame : frame[i].AMOUNT <= 0
  THEN "SchemaError" ELSE "ok"

\* Series.fillna(value)
Series_fillna(cell, value) == IF cell = "NaN" THEN value ELSE cell

\* Lines 87 to 89: the fillna of MERCHANT_NAME, DESCRIPTION and
\* TYPE_OF_PAYMENT.
fillna(frame) ==
  [i \in DOMAIN frame |->
     [frame[i] EXCEPT
        !.MERCHANT_NAME = Series_fillna(@, "No marchant"),
        !.DESCRIPTION = Series_fillna(@, "No Description"),
        !.TYPE_OF_PAYMENT = Series_fillna(@, "No type payment")]]

\* inputs_[features + [target]] without the target, and the target alone.
features == {"AMOUNT", "TYPE_OF_PAYMENT", "MERCHANT_NAME", "DESCRIPTION"}

FeaturesOf(frame) ==
  [i \in DOMAIN frame |-> [c \in features |-> frame[i][c]]]

\* FeatInputsSchema: the columns declared nullable; a validated AMOUNT is
\* never missing.
nullable == {"TYPE_OF_PAYMENT", "MERCHANT_NAME", "DESCRIPTION"}

\* DataFrame.dropna(): the rows without a missing value.
frame_dropna(frame) ==
  SelectSeq(frame, LAMBDA row : \A c \in nullable : row[c] # "NaN")

\* frame.iloc[index]: index holds positions from 0.
iloc(frame, index) == [i \in DOMAIN index |-> frame[index[i] + 1]]

MerchantsOf(frame) == [i \in DOMAIN frame |-> frame[i].MERCHANT_NAME]

\* TrainingJob.scorers as a configuration sets it: the accuracy and a
\* loss, each with the greater_is_better that fits it, or a loss with
\* greater_is_better left at its default, True.
ScorerLists ==
  {<<[name |-> "accuracy_score", greater_is_better |-> TRUE],
     [name |-> "zero_one_loss", greater_is_better |-> FALSE]>>,
   <<[name |-> "zero_one_loss", greater_is_better |-> TRUE]>>}

\* sklearn accuracy_score and zero_one_loss: the share of equal, or of
\* unequal, positions, held as the pair of a count and the length.
sklearn_metric(name, y_true, y_pred) ==
  LET equal == Cardinality({i \in DOMAIN y_true : y_true[i] = y_pred[i]})
  IN [num |-> IF name = "accuracy_score" THEN equal ELSE Len(y_true) - equal,
      den |-> Len(y_true)]

\* The variant returns the value of the scoring function as it is.
score_unsigned(scorer, targets, outputs) ==
  sklearn_metric(scorer.name, targets, outputs)

\* SklearnMetric.score
score(scorer, targets, outputs) ==
  LET value == sklearn_metric(scorer.name, targets, outputs)
      sign == IF scorer.greater_is_better THEN 1 ELSE -1
  IN [value EXCEPT !.num = @ * sign]

\* The body of the scorers loop for the scorers it gets through.
Scores(scorers_, classes_, targets_test, outputs_test, k) ==
  [i \in 1..k |->
     [key |-> scorers_[i].name,
      value |-> score(scorers_[i],
                      le_transform(classes_, targets_test).values,
                      le_transform(classes_, outputs_test).values)]]

\* The variant saves and registers before the refit.
TrainingPlanRefitLast ==
  <<"start_run", "read", "prepare", "split", "fit", "predict", "score",
    "sign", "save", "register", "refit">>

\* TrainingJob.run from top to bottom.
TrainingPlan ==
  <<"start_run", "read", "prepare", "split", "fit", "predict", "score",
    "refit", "sign", "save", "register">>

\* TuningJob.run from top to bottom.
TuningPlan ==
  <<"start_run", "read", "check", "read_targets", "check_targets", "search">>

Plan(job_) == IF job_ = "TrainingJob" THEN TrainingPlan ELSE TuningPlan

\* The variant closes every run as finished.
ExitStatusFinished(raised) == "FINISHED"

\* mlflow ActiveRun.__exit__: the status the run is ended with.
ExitStatus(raised) == IF raised THEN "FAILED" ELSE "FINISHED"

TrainingJobs == {"TrainingJob", "TuningJob"}

\* What a tuning job may find when it starts: nothing, or the artifact and
\* the version of an earlier training run, by now in Production.
EarlierRuns ==
  {[saved |-> <<>>, registry |-> <<>>],
   [saved |-> <<[model_uri |-> <<"runs:", 0, "model">>,
                 model |-> [le |-> NoEncoder, pipeline |-> NoPipeline],
                 signature |-> <<>>, input_example |-> <<>>]>>,
    registry |-> <<[name |-> registry_name,
                    model_uri |-> <<"runs:", 0, "model">>,
                    current_stage |-> "Production"]>>]}

\* TrainTestSplitter.test_size as configured by default: 0.2.
DefaultTestSize == [kind |-> "float", value |-> 20]

VARIABLES tr

TrIdle == [pc |-> "idle"]

InitTraining ==
  \E job_ \in TrainingJobs, file \in TrainFiles, stratify \in BOOLEAN,
     scorers_ \in ScorerLists \cup {<<>>}, earlier \in EarlierRuns :
    /\ job_ = "TuningJob" => file = <<>> /\ stratify
    /\ job_ = "TuningJob" <=> scorers_ = <<>>
    /\ job_ = "TrainingJob" => earlier.registry = <<>>
    /\ tr = [job |-> job_, run |-> 1, scorers |-> scorers_, pc |-> 1, status |-> "running",
             run_status |-> "none", steps |-> <<>>, file |-> file,
             stratify |-> stratify, inputs |-> <<>>, targets |-> <<>>,
             memo |-> <<>>, train_index |-> <<>>, test_index |-> <<>>,
             le |-> NoEncoder, pipeline |-> NoPipeline,
             outputs_test |-> <<>>, metrics |-> <<>>, signature |-> <<>>,
             saved |-> earlier.saved, registry |-> earlier.registry,
             prev |-> <<>>]

TrAt(job_, step) ==
  /\ tr.job = job_
  /\ tr.status = "running"
  /\ tr.pc \in DOMAIN Plan(job_)
  /\ Plan(job_)[tr.pc] = step

\* The step returns: go on, or leave the run scope and return from run().
TrDone(rec) ==
  IF tr.pc < Len(Plan(tr.job))
  THEN tr' = [rec EXCEPT !.pc = @ + 1,
                         !.steps = Append(@, Plan(tr.job)[tr.pc])]
  ELSE tr' = [rec EXCEPT !.pc = @ + 1,
                         !.steps = @ \o <<Plan(tr.job)[tr.pc], "end_run">>,
                         !.run_status = ExitStatus(FALSE),
                         !.status = "returned"]

\* The step raises: the exception leaves the run scope and run().
TrRaise(rec, e) ==
  tr' = [rec EXCEPT !.steps = @ \o <<Plan(tr.job)[tr.pc], "end_run">>,
                    !.run_status = ExitStatus(TRUE),
                    !.status = e]

\* run_context: mlflow.start_run opens the run, or fails to.
StartRun ==
  /\ \E job_ \in TrainingJobs : TrAt(job_, "start_run")
  /\ \/ tr' = [tr EXCEPT !.pc = @ + 1, !.steps = Append(@, "start_run"),
                         !.run_status = "RUNNING"]
     \/ tr' = [tr EXCEPT !.steps = Append(@, "start_run"),
                         !.status = "MlflowException"]

TrRead ==
  /\ TrAt("TrainingJob", "read")
  /\ \/ TrDone([tr EXCEPT !.inputs = tr.file])
     \/ TrRaise(tr, "OSError")

\* Lines 80 to 89: selection, drop_duplicates, pop of the target, schema
\* check, fillna.
TrPrepare ==
  /\ TrAt("TrainingJob", "prepare")
  /\ LET frame == drop_duplicates(tr.inputs)
     IN IF FeatInputsSchemaCheck(frame) # "ok"
        THEN TrRaise(tr, FeatInputsSchemaCheck(frame))
        ELSE TrDone([tr EXCEPT
               !.inputs = fillna(FeaturesOf(frame)),
               !.targets = [i \in DOMAIN frame |-> frame[i].CATEGORY]])

\* next(self.splitter.split(...)): with the same seed and the same data the
\* shuffle is the one of the run before.
TrSplit ==
  /\ TrAt("TrainingJob", "split")
  /\ \E r \in IF tr.memo # <<>> THEN {tr.memo[1]}
              ELSE SplitResults(tr.targets, DefaultTestSize, tr.stratify) :
       IF r.status # "ok"
       THEN TrRaise([tr EXCEPT !.memo = <<r>>], r.status)
       ELSE TrDone([tr EXCEPT !.memo = <<r>>,
                              !.train_index = r.splits[1].train,
                              !.test_index = r.splits[1].test])

\* The variant leaves a fitted model as it is when given a part of the
\* rows only.
TrFitOnWarm(index) ==
  LET new == FitModel("BaselineModel", tr.le, tr.pipeline,
                      MerchantsOf(iloc(tr.inputs, index)),
                      iloc(tr.targets, index), "first")
  IN IF tr.pipeline.set /\ Len(index) < Len(tr.inputs)
     THEN TrDone(tr)
     ELSE TrDone([tr EXCEPT !.le = new.le, !.pipeline = new.pipeline])

\* self.model.fit on the rows at index.
TrFitOn(index) ==
  LET new == FitModel("BaselineModel", tr.le, tr.pipeline,
                      MerchantsOf(iloc(tr.inputs, index)),
                      iloc(tr.targets, index), "first")
  IN TrDone([tr EXCEPT !.le = new.le, !.pipeline = new.pipeline])

TrFit ==
  /\ TrAt("TrainingJob", "fit")
  /\ TrFitOn(tr.train_index)

TrPredict ==
  /\ TrAt("TrainingJob", "predict")
  /\ \E r \in PredictResults("BaselineModel", tr.le, tr.pipeline,
                             MerchantsOf(iloc(tr.inputs, tr.test_index))) :
       IF r.status # "ok"
       THEN TrRaise(tr, r.status)
       ELSE TrDone([tr EXCEPT !.outputs_test = r.values])

\* The scorers loop: _encode_target fails on a label the encoder has not
\* seen; client.log_metric may fail.
TrScore ==
  /\ TrAt("TrainingJob", "score")
  /\ LET targets_test == iloc(tr.targets, tr.test_index)
     IN IF le_transform(tr.le.classes_, targets_test).status # "ok"
        THEN TrRaise(tr, "ValueError")
        ELSE \E k \in 0..Len(tr.scorers) :
               LET rec == [tr EXCEPT !.metrics =
                             Scores(tr.scorers, tr.le.classes_, targets_test,
                                    tr.outputs_test, k)]
               IN IF k = Len(tr.scorers) THEN TrDone(rec)
                  ELSE TrRaise(rec, "MlflowException")

\* self.model.fit(inputs=inputs, targets=targets)
TrRefit ==
  /\ TrAt("TrainingJob", "refit")
  /\ TrFitOn([i \in DOMAIN tr.inputs |-> i - 1])

\* self.signer.sign(inputs=inputs_test[features].dropna(), outputs=outputs_test):
\* the signature is kept as the data it is inferred from.
TrSign ==
  /\ TrAt("TrainingJob", "sign")
  /\ TrDone([tr EXCEPT !.signature =
       <<[inputs |-> frame_dropna(iloc(tr.inputs, tr.test_index)),
          outputs |-> tr.outputs_test]>>])

\* self.saver.save(model=self.model, signature=..., input_example=inputs)
TrSave ==
  /\ TrAt("TrainingJob", "save")
  /\ \/ TrDone([tr EXCEPT !.saved = Append(@,
          [model_uri |-> <<"runs:", tr.run, "model">>,
           model |-> [le |-> tr.le, pipeline |-> tr.pipeline],
           signature |-> tr.signature,
           input_example |-> tr.inputs])])
     \/ TrRaise(tr, "MlflowException")

\* The variant registers the uri of the first save of the job object.
TrRegisterFirstSaved ==
  /\ TrAt("TrainingJob", "register")
  /\ \/ TrDone([tr EXCEPT !.registry = Append(@,
          [name |-> registry_name, model_uri |-> tr.saved[1].model_uri,
           current_stage |-> "None"])])
     \/ TrRaise(tr, "MlflowException")

\* self.registry.register(name=registry_name, model_uri=model_info.model_uri)
TrRegister ==
  /\ TrAt("TrainingJob", "register")
  /\ \/ TrDone([tr EXCEPT !.registry = Append(@,
          [name |-> registry_name,
           model_uri |-> tr.saved[Len(tr.saved)].model_uri,
           current_stage |-> "None"])])
     \/ TrRaise(tr, "MlflowException")

\* The variant saves and registers what the search found.
TuStepRegistering ==
  /\ \E step \in Range(TuningPlan) \ {"start_run"} : TrAt("TuningJob", step)
  /\ \/ TrDone(IF Plan(tr.job)[tr.pc] # "search" THEN tr
               ELSE [tr EXCEPT
                       !.saved = Append(@,
                          [model_uri |-> <<"runs:", tr.run, "model">>,
                           model |-> [le |-> tr.le, pipeline |-> tr.pipeline],
                           signature |-> <<>>, input_example |-> <<>>]),
                       !.registry = Append(@,
                          [name |-> registry_name,
                           model_uri |-> <<"runs:", tr.run, "model">>,
                           current_stage |-> "None"])])
     \/ \E e \in {"OSError", "SchemaError", "ValueError"} : TrRaise(tr, e)

\* A step of TuningJob.run: it returns or raises.
TuStep ==
  /\ \E step \in Range(TuningPlan) \ {"start_run"} : TrAt("TuningJob", step)
  /\ \/ TrDone(tr)
     \/ \E e \in {"OSError", "SchemaError", "ValueError"} : TrRaise(tr, e)

\* A second run of the same job object on the same file.
TrAgain ==
  /\ tr.job = "TrainingJob"
  /\ tr.run = 1
  /\ tr.status # "running"
  /\ tr' = [tr EXCEPT !.run = 2, !.pc = 1, !.status = "running",
                      !.run_status = "none", !.steps = <<>>,
                      !.inputs = <<>>, !.targets = <<>>,
                      !.train_index = <<>>, !.test_index = <<>>,
                      !.outputs_test = <<>>, !.metrics = <<>>,
                      !.signature = <<>>,
                      !.prev = <<[status |-> tr.status, metrics |-> tr.metrics]>>]

NextTraining ==
  \/ StartRun \/ TrRead \/ TrPrepare \/ TrSplit \/ TrFit \/ TrPredict
  \/ TrScore \/ TrRefit \/ TrSign \/ TrSave \/ TrRegister \/ TuStep
  \/ TrAgain

\* ------------------------------------------------------------------------
\* jobs/base.py: Job.__exit__ with services whose stop() can raise
\* ------------------------------------------------------------------------
\* Service.stop does nothing by default and no service of the package
\* overrides it; a job can be built with services of subclasses that do.
VARIABLES st

StIdle == [pc |-> "idle"]

\* What __exit__ logs before the k-th stop.
StopLogs == <<"[STOP] Mlflow service", "[STOP] AWS service", "[STOP] Logger service">>

InitStop ==
  \E raising \in SUBSET Range(ExitStops) :
    st = [pc |-> "enter", raising |-> raising, events |-> <<>>,
          log |-> <<>>, pending |-> "none", failed_stop |-> "none",
          error |-> "none", result |-> "none"]

\* `with job as runner`: Job.__enter__
StEnter ==
  /\ st.pc = "enter"
  /\ \E k \in 0..Len(EnterStarts) :
       st' = [st EXCEPT !.events = @ \o SubSeq(EnterStarts, 1, k),
                        !.pc = IF k = Len(EnterStarts) THEN "run" ELSE "done",
                        !.error = IF k = Len(EnterStarts) THEN @ ELSE "StartError"]

\* runner.run()
StRun ==
  /\ st.pc = "run"
  /\ \E outcome \in {"none"} \cup RunErrors :
       st' = [st EXCEPT !.events = Append(@, "run"), !.pending = outcome,
                        !.pc = "exit"]

\* Job.__exit__: k stops return; with k < 3 the next one raises, and the
\* exception leaves __exit__ at that line.
StExit ==
  /\ st.pc = "exit"
  /\ \E k \in 0..Len(ExitStops) :
       /\ k < Len(ExitStops) => ExitStops[k + 1] \in st.raising
       /\ LET called == Min({k + 1, Len(ExitStops)})
          IN st' = [st EXCEPT
               !.pc = "done",
               !.events = @ \o SubSeq(ExitStops, 1, called),
               !.log = @ \o SubSeq(StopLogs, 1, called),
               !.failed_stop = IF k < Len(ExitStops) THEN ExitStops[k + 1] ELSE @,
               !.error = IF k < Len(ExitStops) THEN "StopError"
                         ELSE IF ExitReturn THEN "none" ELSE st.pending,
               !.result = IF k = Len(ExitStops) /\ st.pending = "none"
                          THEN "0" ELSE @]

NextStop == StEnter \/ StRun \/ StExit

\* ------------------------------------------------------------------------
\* core/models.py: Model.set_params
\* ------------------------------------------------------------------------
MaxParams == 2

\* The fields each model variant declares, KIND apart.
DeclaredFields ==
  [k \in ModelKinds |->
     IF k = "BaselineModel"
     THEN {"corespondance_table_path", "pipeline", "le"}
     ELSE {"max_features_desc", "n_components_desc", "max_features_merch",
           "n_components_merch", "random_state", "n_estimators", "max_depth",
           "n_jobs", "pipeline", "le"}]

\* Names a caller may give: a field of both variants, a field of one of
\* them, a name no variant declares, and one that starts with an underscore.
ParamNames == {"le", "max_depth", "foo", "_foo"}

ParamValues == {"v1", "v2"}

\* **params: a dict, so the names differ and keep the order given.
ParamLists ==
  {ps \in SeqsUpTo(ParamNames \X ParamValues, MaxParams) :
     \A i, j \in DOMAIN ps : ps[i][1] = ps[j][1] => i = j}

\* str.startswith("_") for the names above.
startswith_underscore(name) == name = "_foo"

\* A model object: its fields, and the attributes set on it beside them.
NewModel(k) ==
  [KIND |-> k, fields |-> [f \in DeclaredFields[k] |-> "default"],
   attrs |-> [a \in {} |-> "default"]]

\* pydantic BaseModel.__setattr__ with extra="forbid", frozen=False and no
\* validate_assignment: a name with a leading underscore is set on the
\* object as it is, any other name must be a declared field.
setattr(model, name, value) ==
  IF startswith_underscore(name)
  THEN [status |-> "ok",
        model |-> [model EXCEPT !.attrs = (name :> value) @@ @]]
  ELSE IF name \notin DOMAIN model.fields
  THEN [status |-> "ValueError", model |-> model]
  ELSE [status |-> "ok", model |-> [model EXCEPT !.fields[name] = value]]

RECURSIVE SetFrom(_, _, _)
SetFrom(model, params, i) ==
  IF i > Len(params) THEN [status |-> "returned", model |-> model]
  ELSE LET r == setattr(model, params[i][1], params[i][2])
       IN IF r.status # "ok" THEN r
          ELSE SetFrom(r.model, params, i + 1)

\* The variant leaves the model as it was when a name is refused.
set_params_rollback(model, params) ==
  LET r == SetFrom(model, params, 1)
  IN IF r.status = "returned" THEN r ELSE [r EXCEPT !.model = model]

\* Model.set_params: the loop over params.items(), then `return self`.
set_params(model, params) == SetFrom(model, params, 1)

VARIABLES pm

PmIdle == [pc |-> "idle"]

MaxSetCalls == 2

InitParams ==
  \E k \in ModelKinds :
    pm = [pc |-> "ready", model |-> NewModel(k), calls |-> 0,
          params |-> <<>>, before |-> NewModel(k), status |-> "none"]

\* One call of set_params on the model object.
SetParams ==
  /\ pm.pc = "ready"
  /\ pm.calls < MaxSetCalls
  /\ \E params \in ParamLists :
       LET r == set_params(pm.model, params)
       IN pm' = [pm EXCEPT !.model = r.model, !.status = r.status,
                           !.params = params, !.before = pm.model,
                           !.calls = @ + 1]

NextParams == SetParams

\* ------------------------------------------------------------------------
\* io/services.py: LoggerService and the process-wide loguru logger
\* ------------------------------------------------------------------------
MaxEntries == 3

\* LoggerService configurations: sink and level are any strings. loguru
\* knows the level "DEBUG" and "INFO", not "debug".
LoggerSinks == {"stderr", "stdout", "run.log"}

LoggerLevels == {"DEBUG", "INFO", "debug"}

LoggerConfigs == [sink : LoggerSinks, level : LoggerLevels]

\* The handler loguru installs when it is imported.
DefaultHandler == [id |-> 0, config |-> [sink |-> "stderr", level |-> "DEBUG"]]

\* loguru.logger.add(**config): a new handler with the next id, or a
\* ValueError for a level that does not exist, and then no handler.
logger_add(handlers, next_id, config_) ==
  IF config_.level \notin {"DEBUG", "INFO"}
  THEN [status |-> "ValueError", handlers |-> handlers]
  ELSE [status |-> "ok",
        handlers |-> Append(handlers, [id |-> next_id, config |-> config_])]

\* The variant adds its sink to those installed.
LoggerService_start_keeping(handlers, next_id, config_) ==
  logger_add(handlers, next_id, config_)

\* LoggerService.start: loguru.logger.remove(), then loguru.logger.add.
LoggerService_start(handlers, next_id, config_) ==
  logger_add(<<>>, next_id, config_)

\* Service.stop, which no service overrides: nothing.
Service_stop(handlers) == handlers

VARIABLES lg

LgIdle == [pc |-> "idle"]

InitLogger ==
  lg = [pc |-> "out", handlers |-> <<DefaultHandler>>, next_id |-> 1,
        entries |-> 0, config |-> DefaultHandler.config,
        started |-> "none", error |-> "none"]

\* Job.__enter__ of a job with some logger configuration: the logger
\* starts, then AWS and mlflow, each of which may raise.
LgEnter ==
  /\ lg.pc = "out"
  /\ lg.entries < MaxEntries
  /\ \E config_ \in LoggerConfigs, k \in 1..Len(EnterStarts) :
       LET r == LoggerService_start(lg.handlers, lg.next_id, config_)
           ok == r.status = "ok"
       IN lg' = [lg EXCEPT
            !.handlers = r.handlers,
            !.next_id = IF ok THEN @ + 1 ELSE @,
            !.entries = @ + 1,
            !.config = config_,
            !.started = r.status,
            !.error = IF ~ok THEN r.status
                      ELSE IF k < Len(EnterStarts) THEN "StartError"
                      ELSE "none",
            !.pc = IF ok /\ k = Len(EnterStarts) THEN "in" ELSE "out"]

\* run() and Job.__exit__: the three stops, mlflow, AWS, logger.
LgExit ==
  /\ lg.pc = "in"
  /\ \E outcome \in {"none"} \cup RunErrors :
       lg' = [lg EXCEPT
            !.handlers = Service_stop(Service_stop(Service_stop(@))),
            !.error = outcome,
            !.pc = "out"]

NextLogger == LgEnter \/ LgExit

\* ------------------------------------------------------------------------
\* Specifications
\* ------------------------------------------------------------------------
extVars == <<sp, sg, tn, inf, tr, st, pm, lg>>

vars == <<mainVars, modelVars, extVars>>

\* The values the variables of a part hold while another part runs.
MainIdle ==
  /\ argv = <<>>
  /\ pc = "done"
  /\ args = parse_args(<<>>)
  /\ config = EmptyConfig
  /\ job = "none"
  /\ events = <<>>
  /\ stdout = "none"
  /\ result = "none"
  /\ error = "none"
  /\ pending = "none"

ModelIdle ==
  /\ KIND = "BaselineModel"
  /\ ties = "first"
  /\ le = NoEncoder
  /\ pipeline = NoPipeline
  /\ fitted_on = <<>>
  /\ stale = FALSE
  /\ call = NoCall

\* The command line program: main and the job it runs.
Init ==
  /\ InitMainVars
  /\ ModelIdle
  /\ sp = SpIdle
  /\ sg = SgIdle
  /\ tn = TnIdle
  /\ inf = InfIdle
  /\ tr = TrIdle
  /\ st = StIdle
  /\ pm = PmIdle
  /\ lg = LgIdle

Next == NextMain /\ UNCHANGED <<modelVars, extVars>>

Spec == Init /\ [][Next]_vars

\* A model object under any sequence of fit and predict calls.
InitModel ==
  /\ InitModelVars
  /\ MainIdle
  /\ sp = SpIdle
  /\ sg = SgIdle
  /\ tn = TnIdle
  /\ inf = InfIdle
  /\ tr = TrIdle
  /\ st = StIdle
  /\ pm = PmIdle
  /\ lg = LgIdle

NextModelOnly == NextModel /\ UNCHANGED <<mainVars, extVars>>

SpecModel == InitModel /\ [][NextModelOnly]_vars

\* A splitter asked for its splits and for their number.
InitSplitter ==
  /\ InitSplit
  /\ MainIdle
  /\ ModelIdle
  /\ sg = SgIdle
  /\ tn = TnIdle
  /\ inf = InfIdle
  /\ tr = TrIdle
  /\ st = StIdle
  /\ pm = PmIdle
  /\ lg = LgIdle

NextSplitter == NextSplit /\ UNCHANGED <<mainVars, modelVars, sg, tn, inf, tr, st, pm, lg>>

SpecSplitter == InitSplitter /\ [][NextSplitter]_vars

\* A signer built from its configuration and asked for a signature.
InitSigner ==
  /\ InitSign
  /\ MainIdle
  /\ ModelIdle
  /\ sp = SpIdle
  /\ tn = TnIdle
  /\ inf = InfIdle
  /\ tr = TrIdle
  /\ st = StIdle
  /\ pm = PmIdle
  /\ lg = LgIdle

NextSigner == NextSign /\ UNCHANGED <<mainVars, modelVars, sp, tn, inf, tr, st, pm, lg>>

SpecSigner == InitSigner /\ [][NextSigner]_vars

\* A transition job run against a registry.
InitTransitionJob ==
  /\ InitTransition
  /\ MainIdle
  /\ ModelIdle
  /\ sp = SpIdle
  /\ sg = SgIdle
  /\ inf = InfIdle
  /\ tr = TrIdle
  /\ st = StIdle
  /\ pm = PmIdle
  /\ lg = LgIdle

NextTransitionJob == NextTransition /\ UNCHANGED <<mainVars, modelVars, sp, sg, inf, tr, st, pm, lg>>

SpecTransition == InitTransitionJob /\ [][NextTransitionJob]_vars

\* An inference job run on an input file against the registry.
InitInferenceJob ==
  /\ InitInference
  /\ MainIdle
  /\ ModelIdle
  /\ sp = SpIdle
  /\ sg = SgIdle
  /\ tn = TnIdle
  /\ tr = TrIdle
  /\ st = StIdle
  /\ pm = PmIdle
  /\ lg = LgIdle

NextInferenceJob == NextInference /\ UNCHANGED <<mainVars, modelVars, sp, sg, tn, tr, st, pm, lg>>

SpecInference == InitInferenceJob /\ [][NextInferenceJob]_vars

\* A training or tuning job run inside its mlflow run; a training job may
\* be run a second time.
InitTrainingJob ==
  /\ InitTraining
  /\ MainIdle
  /\ ModelIdle
  /\ sp = SpIdle
  /\ sg = SgIdle
  /\ tn = TnIdle
  /\ inf = InfIdle
  /\ st = StIdle
  /\ pm = PmIdle
  /\ lg = LgIdle

NextTrainingJob ==
  NextTraining /\ UNCHANGED <<mainVars, modelVars, sp, sg, tn, inf, st, pm, lg>>

SpecTraining == InitTrainingJob /\ [][NextTrainingJob]_vars

\* A job used as a context manager whose services may fail to stop.
InitStopJob ==
  /\ InitStop
  /\ MainIdle
  /\ ModelIdle
  /\ sp = SpIdle
  /\ sg = SgIdle
  /\ tn = TnIdle
  /\ inf = InfIdle
  /\ tr = TrIdle
  /\ pm = PmIdle
  /\ lg = LgIdle

NextStopJob == NextStop /\ UNCHANGED <<mainVars, modelVars, sp, sg, tn, inf, tr, pm, lg>>

SpecStop == InitStopJob /\ [][NextStopJob]_vars

\* A model object under calls of set_params.
InitParamsModel ==
  /\ InitParams
  /\ MainIdle
  /\ ModelIdle
  /\ sp = SpIdle
  /\ sg = SgIdle
  /\ tn = TnIdle
  /\ inf = InfIdle
  /\ tr = TrIdle
  /\ st = StIdle
  /\ lg = LgIdle

NextParamsModel ==
  NextParams /\ UNCHANGED <<mainVars, modelVars, sp, sg, tn, inf, tr, st, lg>>

SpecParams == InitParamsModel /\ [][NextParamsModel]_vars

\* The logger of a process in which jobs are entered and left one after
\* the other.
InitLoggerProcess ==
  /\ InitLogger
  /\ MainIdle
  /\ ModelIdle
  /\ sp = SpIdle
  /\ sg = SgIdle
  /\ tn = TnIdle
  /\ inf = InfIdle
  /\ tr = TrIdle
  /\ st = StIdle
  /\ pm = PmIdle

NextLoggerProcess ==
  NextLogger /\ UNCHANGED <<mainVars, modelVars, sp, sg, tn, inf, tr, st, pm>>

SpecLogger == InitLoggerProcess /\ [][NextLoggerProcess]_vars

\* ------------------------------------------------------------------------
\* Properties
\* ------------------------------------------------------------------------
IsPrefix(p, q) == Len(p) <= Len(q) /\ SubSeq(q, 1, Len(p)) = p

JobEventNames == Range(EnterStarts) \cup {"run"} \cup Range(ExitStops)

JobEvents == SelectSeq(events, LAMBDA e : e \in JobEventNames)

Lifecycle ==
  <<"start_logger", "start_aws", "start_mlflow", "run",
    "stop_mlflow", "stop_aws", "stop_logger">>

Entered == "start_mlflow" \in Range(events)

\* C1: when run() raises, __exit__ still runs and stops the mlflow, AWS and
\* logger services, and main ends with exactly the exception run() raised:
\* it is not swallowed (main does not return) and not replaced.
C1_ExitOnRaise ==
  (pending # "none") =>
    /\ pc \in {"exit", "done"}
    /\ pc = "done" =>
         /\ {"stop_mlflow", "stop_aws", "stop_logger"} \subseteq Range(events)
         /\ error = pending
         /\ result = "none"

C1_Witness ==
  /\ pc = "done"
  /\ pending \in RunErrors
  /\ error = pending
  /\ "stop_logger" \in Range(events)

\* C2: the job's calls always form a prefix of: start logger, start AWS,
\* start mlflow, run, stop mlflow, stop AWS, stop logger. run() is only
\* called after entry completed, and once main has ended every completed
\* entry has been followed by exactly one exit, whether run() returned or
\* raised.
C2_Lifecycle ==
  /\ IsPrefix(JobEvents, Lifecycle)
  /\ (pc = "done" /\ Entered) => JobEvents = Lifecycle
  /\ (pc = "run") <=> (Entered /\ "run" \notin Range(events))

C2_Witness ==
  /\ pc = "done"
  /\ JobEvents = Lifecycle
  /\ pending = "none"

NormalEvents(av) ==
  LET a == parse_args(av)
  IN ParseEvents(a, Len(a.files) + Len(a.extras))
       \o <<"merge_configs", "model_validate">> \o Lifecycle

\* C3: without --schema, main's calls are always a prefix of: parse every
\* source, merge, validate, start the three services, run, stop the three
\* services. main returns 0 only after all of them, with a job of one of the
\* four kinds, the one named by the merged config's KIND. When validation
\* fails no service is started, nothing is run and 0 is not returned; when
\* run() raises, main ends with that exception and 0 is not returned.
C3_MainOrder ==
  LET a == parse_args(argv)
  IN (a.ok /\ ~a.schema) =>
       /\ IsPrefix(events, NormalEvents(argv))
       /\ result = "0" =>
            /\ events = NormalEvents(argv)
            /\ job \in JobKinds
            /\ job = config[KindKey]
            /\ error = "none"
       /\ error = "ValidationError" =>
            /\ JobEvents = <<>>
            /\ job = "none"
            /\ result = "none"
       /\ (pc = "done" /\ pending # "none") =>
            /\ error = pending
            /\ result # "0"

C3_Witness ==
  /\ pc = "done"
  /\ result = "0"
  /\ ~args.schema
  /\ Len(args.files) + Len(args.extras) >= 2
  /\ Len(SelectSeq(events, LAMBDA e : e = "run")) = 1

\* C4: with no positional file, no -e extra and no --schema, main ends with
\* RuntimeError("No configs provided.") and has validated no settings,
\* started no service and run no job.
C4_NoConfigs ==
  LET a == parse_args(argv)
  IN (pc = "done" /\ a.ok /\ ~a.schema /\ a.files = <<>> /\ a.extras = <<>>) =>
       /\ error = "RuntimeError: No configs provided."
       /\ events = <<>>
       /\ job = "none"
       /\ result = "none"

C4_Witness ==
  /\ pc = "done"
  /\ args.ok /\ ~args.schema /\ args.files = <<>> /\ args.extras = <<>>
  /\ error = "RuntimeError: No configs provided."

\* C5: when the parsed arguments have --schema set, main writes the schema
\* to standard output and returns 0; no source is parsed, nothing is
\* validated and no job is entered or run, whatever files and extras were
\* given with it.
C5_SchemaOnly ==
  LET a == parse_args(argv)
  IN (pc = "done" /\ a.ok /\ a.schema) =>
       /\ stdout = "schema"
       /\ result = "0"
       /\ error = "none"
       /\ events = <<>>
       /\ job = "none"

C5_Witness ==
  /\ pc = "done"
  /\ args.ok /\ args.schema
  /\ args.files # <<>> /\ args.extras # <<>>
  /\ stdout = "schema"

Merged == "merge_configs" \in Range(events)

KeysOf(srcs) == UNION {DOMAIN Content[srcs[i]] : i \in 1..Len(srcs)}

\* Value of key k in the last source of srcs that has it.
LastValue(srcs, k) ==
  Content[srcs[Max({i \in 1..Len(srcs) : k \in DOMAIN Content[srcs[i]]})]][k]

LastWins(cfg, srcs) ==
  /\ DOMAIN cfg = KeysOf(srcs)
  /\ \A k \in DOMAIN cfg : cfg[k] = LastValue(srcs, k)

\* The sources in the order they stand on the command line.
CommandLineSources == SelectSeq(argv, LAMBDA t : t \in Sources)

\* C6 as stated: the merged config has every key of every source on the
\* command line, and for a key in several sources the value of the source
\* given last on the command line.
C6_CommandLineOrder == Merged => LastWins(config, CommandLineSources)

\* C6, amended: the merged config has every key of every source in the list
\* args.files followed by args.extras, and for a key in several of them the
\* value of the source that is last in that list.
C6_FilesThenExtras == Merged => LastWins(config, args.files \o args.extras)

C6_Witness ==
  /\ Merged
  /\ args.files # <<>> /\ args.extras # <<>>
  /\ \E i \in 1..Len(args.files), j \in 1..Len(args.extras) :
       \E k \in DOMAIN Content[args.files[i]] \cap DOMAIN Content[args.extras[j]] :
         Content[args.files[i]][k] # Content[args.extras[j]][k]

NeverFitted == ~pipeline.set

\* Rows of D with merchant m and label l.
RowCount(D, m, l) ==
  Cardinality({i \in 1..Len(D) : D[i].MERCHANT_NAME = m /\ D[i].CATEGORY = l})

SeenMerchants == Range(InputsOf(fitted_on))

\* C7 as stated: predict on a model of either variant on which fit was never
\* called fails with NotFittedError.
C7_NotFittedError ==
  (call.op = "predict" /\ NeverFitted) => call.status = "NotFittedError"

\* C8: for a fitted baseline model, predict on rows whose merchants all
\* occurred in the training set of the last fit succeeds and gives, for each
\* row, a label of the training set whose number of rows with that merchant
\* is the largest among all labels.
C8_MostFrequent ==
  (/\ KIND = "BaselineModel"
   /\ call.op = "predict"
   /\ ~NeverFitted
   /\ Range(call.inputs) \subseteq SeenMerchants) =>
    /\ call.status = "ok"
    /\ Len(call.values) = Len(call.inputs)
    /\ \A i \in 1..Len(call.inputs) :
         /\ call.values[i] \in Labels
         /\ RowCount(fitted_on, call.inputs[i], call.values[i]) > 0
         /\ \A l \in Labels :
              RowCount(fitted_on, call.inputs[i], l)
                <= RowCount(fitted_on, call.inputs[i], call.values[i])

C8_Witness ==
  /\ KIND = "BaselineModel"
  /\ call.op = "predict"
  /\ call.status = "ok"
  /\ call.inputs[1] \in SeenMerchants
  /\ \E l \in Labels :
       /\ 0 < RowCount(fitted_on, call.inputs[1], l)
       /\ RowCount(fitted_on, call.inputs[1], l)
            < RowCount(fitted_on, call.inputs[1], call.values[1])
       /\ IndexOf(LabelOrder, l) < IndexOf(LabelOrder, call.values[1])

\* C9 as stated: for a fitted baseline model, predict on a row whose merchant
\* did not occur in the training set does not fail and returns a label.
C9_FallbackLabel ==
  (/\ KIND = "BaselineModel"
   /\ call.op = "predict"
   /\ ~NeverFitted
   /\ \E i \in 1..Len(call.inputs) : call.inputs[i] \notin SeenMerchants) =>
    /\ call.status = "ok"
    /\ \A i \in 1..Len(call.values) : call.values[i] \in Labels

Fresh ==
  FittedState(KIND, InputsOf(fitted_on), TargetsOf(fitted_on), ties)

\* C10: after any sequence of fits, the model holds exactly what a fresh
\* model fitted on the dataset of the last fit holds: its label encoder has
\* the labels of that dataset and no other, the baseline's lookup table has
\* the merchants of that dataset and no other, and every predict gives a
\* result the fresh model gives on the same inputs.
C10_RefitOverwrites ==
  ~NeverFitted =>
    /\ le = Fresh.le
    /\ pipeline = Fresh.pipeline
    /\ Range(le.classes_) = Range(TargetsOf(fitted_on))
    /\ KIND = "BaselineModel" => DOMAIN pipeline.state = SeenMerchants
    /\ call.op = "predict" =>
         [status |-> call.status, values |-> call.values]
           \in PredictResults(KIND, Fresh.le, Fresh.pipeline, call.inputs)

C10_Witness ==
  /\ KIND = "BaselineModel"
  /\ stale
  /\ call.op = "predict"
  /\ call.status = "ok"

Positions(s) == {s[i] : i \in DOMAIN s}

NoRepeat(s) == \A i, j \in DOMAIN s : s[i] = s[j] => i = j

\* C16: a split that succeeds yields exactly one (train, test) pair and
\* get_n_splits answers 1; the two index arrays share no position and hold
\* every position 0..n-1 exactly once; an integer test_size k gives a test
\* array of k positions and a train array of n - k.
C16_SingleSplit ==
  /\ sp.n_splits \in {0, 1}
  /\ sp.status = "ok" =>
       /\ Len(sp.splits) = 1
       /\ LET train == sp.splits[1].train
              test == sp.splits[1].test
              n == Len(sp.targets)
          IN /\ Positions(train) \cap Positions(test) = {}
             /\ Positions(train) \cup Positions(test) = 0..(n - 1)
             /\ NoRepeat(train \o test)
             /\ sp.test_size.kind = "int" =>
                  /\ Len(test) = sp.test_size.value
                  /\ Len(train) = n - sp.test_size.value

C16_Witness ==
  /\ sp.status = "ok"
  /\ sp.n_splits = 1
  /\ sp.test_size = [kind |-> "int", value |-> 2]
  /\ Len(sp.targets) = 4
  /\ Len(sp.splits) = 1

SpecPairs(specs) == [i \in DOMAIN specs |-> <<specs[i].name, specs[i].type>>]

ColumnPairs(columns) ==
  [i \in DOMAIN columns |-> <<columns[i].name, columns[i].type.DataType>>]

Signed(kind) == sg.pc = "signed" /\ sg.KIND = kind

\* C17: a signature returned by ManualSigner.sign describes, for inputs and
\* for outputs, exactly the name and type pairs of the configured spec
\* lists, whatever dataframes were passed to sign.
C17_ManualRoundTrip ==
  Signed("ManualSigner") /\ sg.status = "ok" =>
    /\ ColumnPairs(sg.signature.inputs) = SpecPairs(sg.inputs_specs)
    /\ ColumnPairs(sg.signature.outputs) = SpecPairs(sg.outputs_specs)

C17_Witness ==
  /\ Signed("ManualSigner")
  /\ sg.status = "ok"
  /\ sg.inputs = "rows"
  /\ Len(sg.inputs_specs) = 2
  /\ sg.inputs_specs # sg.outputs_specs

\* C18: building a PanderaSigner fails with ValueError whenever one of its
\* two schema names is not bound to a Schema subclass of the schemas module.
C18_UnresolvedNameValueError ==
  /\ sg.pc \in {"built", "failed", "signed"}
  /\ sg.KIND = "PanderaSigner"
  /\ \E name \in {sg.inputs_schema_name, sg.outputs_schema_name} :
       name \notin SchemaClasses
  => sg.built = "ValueError"

Unmapped(name) ==
  \E i \in DOMAIN SchemaColumns(name) :
    dtype_str(SchemaColumns(name)[i].dtype) \notin DOMAIN PANDERA_MLFLOW_MAPPING

\* C19: PanderaSigner.sign fails with ValueError when a column of a named
\* schema has a dtype without an entry in PANDERA_MLFLOW_MAPPING, and
\* otherwise returns one signature column per schema column, same name.
C19_UnmappedValueError ==
  Signed("PanderaSigner") =>
    IF Unmapped(sg.inputs_schema_name) \/ Unmapped(sg.outputs_schema_name)
    THEN sg.status = "ValueError"
    ELSE /\ sg.status = "ok"
         /\ [i \in DOMAIN sg.signature.inputs |-> sg.signature.inputs[i].name]
              = [i \in DOMAIN SchemaColumns(sg.inputs_schema_name) |->
                   SchemaColumns(sg.inputs_schema_name)[i].name]

\* C14: a transition run that succeeds asks for exactly one transition, with
\* the configured stage and archive flag; its version is the configured one
\* when a version is configured, and otherwise the version with the highest
\* number, compared as integers, among the latest versions of the
\* configured stages. A run that fails asks for none.
C14_TransitionVersion ==
  tn.pc = "done" =>
    IF tn.status = "ok"
    THEN /\ Len(tn.requests) = 1
         /\ tn.requests[1].stage = tn.stage
         /\ tn.requests[1].archive_existing_versions = tn.archive_existing_versions
         /\ tn.version.set => tn.requests[1].version = str(tn.version.value)
         /\ ~tn.version.set =>
              LET latest == get_latest_versions(tn.before, tn.latest_version_stages)
              IN /\ \E v \in latest : v.version = tn.requests[1].version
                 /\ \A v \in latest : int(v.version) <= int(tn.requests[1].version)
    ELSE tn.requests = <<>>

C14_Witness ==
  /\ tn.pc = "done"
  /\ tn.status = "ok"
  /\ ~tn.version.set
  /\ tn.before[9] = "Staging"
  /\ tn.before[10] = "None"
  /\ ~tn.latest_version_stages.set
  /\ tn.requests[1].version = <<1, 0>>

Retained(file) == Cardinality({i \in DOMAIN file : ~IsNa(file[i])})

\* C13: an inference run goes through read, dropna, schema check, registry
\* URI, load, predict, write in that order and stops at the first step that
\* fails; the writer is called at most once, only after all the steps
\* before it have succeeded, on the model found under the URI of the
\* configured registry name and version or stage, and with one prediction
\* per input row that dropna retained.
C13_InferenceOrder ==
  /\ IsPrefix(inf.steps, InferencePlan)
  /\ Len(inf.written) <= 1
  /\ inf.status = "returned" => Len(inf.written) = 1
  /\ Len(inf.written) = 1 =>
       /\ SubSeq(inf.steps, 1, 6) = SubSeq(InferencePlan, 1, 6)
       /\ inf.uri = <<"models:", registry_name, inf.version_or_stage>>
       /\ inf.model = loader_load(inf.uri).model
       /\ Len(inf.written[1]) = Retained(inf.file)

C13_Witness ==
  /\ inf.status = "returned"
  /\ Len(inf.file) = 2
  /\ Retained(inf.file) = 1
  /\ Len(inf.written) = 1
  /\ Len(inf.written[1]) = 1

Training == tr.job = "TrainingJob"

Attempted(step) == step \in Range(tr.steps)

BodySteps == SelectSeq(tr.steps, LAMBDA s : s # "end_run")

\* The model as fitted on the train split, and what it predicts for the
\* held-out split.
FirstFit ==
  FittedState("BaselineModel", MerchantsOf(iloc(tr.inputs, tr.train_index)),
              iloc(tr.targets, tr.train_index), "first")

HeldOutPredictions ==
  le_inverse_transform(
    FirstFit.le.classes_,
    MostFrequentTransform(FirstFit.pipeline.state,
                          MerchantsOf(iloc(tr.inputs, tr.test_index)))).values

FullFit ==
  FittedState("BaselineModel", MerchantsOf(tr.inputs), tr.targets, "first")

SavedNow == {i \in DOMAIN tr.saved : tr.saved[i].model_uri[2] = tr.run}

\* C11: a training run takes its steps in the order fit on the train split,
\* predict the held-out split, score and log every configured metric on the
\* held-out predictions, refit on the whole dataset, sign, save, register.
\* The refit starts only with every metric logged; the saved and registered
\* artifact holds the model as refitted on the whole dataset, and its
\* signature comes from the held-out inputs and the predictions the first
\* fit gave for them.
C11_TwoPhaseFit ==
  Training =>
    /\ IsPrefix(BodySteps,
                <<"start_run", "read", "prepare", "split", "fit", "predict",
                  "score", "refit", "sign", "save", "register">>)
    /\ Attempted("score") => tr.outputs_test = HeldOutPredictions
    /\ Attempted("refit") =>
         tr.metrics = Scores(tr.scorers, FirstFit.le.classes_,
                             iloc(tr.targets, tr.test_index),
                             HeldOutPredictions, Len(tr.scorers))
    /\ \A i \in SavedNow :
         /\ tr.saved[i].model = FullFit
         /\ tr.saved[i].signature =
              <<[inputs |-> iloc(tr.inputs, tr.test_index),
                 outputs |-> HeldOutPredictions]>>
    /\ Attempted("register") /\ tr.status = "returned" =>
         /\ SavedNow # {}
         /\ tr.registry[Len(tr.registry)].model_uri = <<"runs:", tr.run, "model">>

C11_Witness ==
  /\ Training
  /\ tr.status = "returned"
  /\ tr.run = 1
  /\ Len(tr.registry) = 1
  /\ Len(tr.metrics) = 2
  /\ FirstFit # FullFit

\* Outcomes of run() that the data decide, as against failures of the file
\* system or of the tracking server.
DataOutcomes == {"returned", "ValueError", "SchemaError"}

\* C12: of two consecutive runs of one training job on the same file, with
\* the same seeds and configuration and no failure of the environment, the
\* second ends as the first did and logs the same scores: what the first
\* run's refit left in the model does not reach the second run's scores.
C12_SameScores ==
  /\ Training
  /\ tr.run = 2
  /\ tr.status \in DataOutcomes
  /\ tr.prev[1].status \in DataOutcomes
  => /\ tr.status = tr.prev[1].status
     /\ tr.metrics = tr.prev[1].metrics

C12_Witness ==
  /\ Training
  /\ tr.run = 2
  /\ tr.status = "returned"
  /\ tr.prev[1].status = "returned"
  /\ Len(tr.metrics) = 2
  /\ tr.metrics[1].value.num = 0
  /\ FirstFit # FullFit

\* C15: the mlflow run of run_context is RUNNING from the moment the scope
\* is entered until it is left, and leaving closes it: FINISHED when the
\* body returns, FAILED when it raises. In a training and in a tuning run
\* every step from the read of the inputs on lies between the opening and
\* the closing of the run, and run() is left only with the run closed.
C15_RunScope ==
  /\ tr.status = "running" /\ tr.pc > 1 => tr.run_status = "RUNNING"
  /\ tr.status = "returned" => tr.run_status = "FINISHED"
  /\ tr.status \notin {"running", "returned"} /\ tr.pc > 1 =>
       tr.run_status = "FAILED"
  /\ tr.run_status \in {"FINISHED", "FAILED"} =>
       /\ tr.status # "running"
       /\ tr.steps[Len(tr.steps)] = "end_run"
  /\ \A i \in DOMAIN tr.steps :
       tr.steps[i] \notin {"start_run", "end_run"} =>
         /\ tr.steps[1] = "start_run"
         /\ i > 1
         /\ \A j \in 1..i : tr.steps[j] # "end_run"
  /\ tr.status # "running" /\ tr.pc > 1 => tr.steps[Len(tr.steps)] = "end_run"

C15_Witness ==
  /\ tr.job = "TuningJob"
  /\ tr.status = "ValueError"
  /\ tr.run_status = "FAILED"
  /\ Attempted("search")

\* C20: when the stop of a service fails during Job.__exit__, the failure
\* is logged, it reaches the caller, and all three services have been asked
\* to stop before it does.
C20_StopFailure ==
  st.pc = "done" /\ st.failed_stop # "none" =>
    /\ \E i \in DOMAIN st.log : st.log[i] \notin Range(StopLogs)
    /\ st.error = "StopError"
    /\ Range(ExitStops) \subseteq Range(st.events)


\* The held-out targets and predictions as the scorers get them: encoded
\* with the encoder of the first fit.
EncodedTargetsTest ==
  le_transform(FirstFit.le.classes_, iloc(tr.targets, tr.test_index)).values

EncodedOutputsTest == le_transform(FirstFit.le.classes_, tr.outputs_test).values

\* The number of positions where a prediction gives the target.
Agreement(y_true, y_pred) ==
  Cardinality({i \in DOMAIN y_true : y_true[i] = y_pred[i]})

\* Every prediction that could stand in the place of the held-out one.
Predictions(y_true) == [DOMAIN y_true -> 0..(Len(FirstFit.le.classes_) - 1)]

\* greater_is_better says what the scoring function is: accuracy_score
\* grows, zero_one_loss falls, with the number of right predictions.
Oriented(scorer) == (scorer.name = "accuracy_score") = scorer.greater_is_better

\* The logged value is the scoring function's value times +1 or -1.
SignedValue(i) ==
  LET raw == sklearn_metric(tr.scorers[i].name, EncodedTargetsTest,
                            EncodedOutputsTest)
  IN /\ tr.metrics[i].key = tr.scorers[i].name
     /\ tr.metrics[i].value.den = raw.den
     /\ tr.metrics[i].value.num =
          IF tr.scorers[i].greater_is_better THEN raw.num ELSE 0 - raw.num

\* A prediction that scores higher than the held-out one is right on more
\* rows.
LargerIsBetter(i) ==
  \A p \in Predictions(EncodedTargetsTest) :
    score(tr.scorers[i], EncodedTargetsTest, p).num > tr.metrics[i].value.num
      => Agreement(EncodedTargetsTest, p)
           > Agreement(EncodedTargetsTest, EncodedOutputsTest)

\* C21 as stated: every metric a training run logs is the scoring
\* function's value times +1 (greater_is_better) or -1, and for every
\* metric a larger score means a better prediction.
C21_LargerAlwaysBetter ==
  Training =>
    \A i \in DOMAIN tr.metrics : SignedValue(i) /\ LargerIsBetter(i)

\* C21: every metric a training run logs, under the scorer's name, is the
\* value of the named scoring function on the encoded held-out targets and
\* predictions, times +1 when greater_is_better is true and -1 otherwise; a
\* larger score means a better prediction for the scorers whose
\* greater_is_better says what the scoring function is (true for a score,
\* false for a loss).
C21_SignedScore ==
  Training =>
    \A i \in DOMAIN tr.metrics :
      /\ SignedValue(i)
      /\ Oriented(tr.scorers[i]) => LargerIsBetter(i)

C21_Witness ==
  /\ Training
  /\ tr.status = "returned"
  /\ Len(tr.metrics) = 2
  /\ tr.metrics[2].key = "zero_one_loss"
  /\ tr.metrics[2].value.num < 0
  /\ Oriented(tr.scorers[2])


RegisteredNow == {i \in DOMAIN tr.registry : tr.registry[i].model_uri[2] = tr.run}

\* The run failed in a step before the register call.
FailedBefore(step) ==
  /\ tr.status \notin {"running", "returned"}
  /\ ~Attempted(step)

\* C22: a training run creates at most one registry version, only with
\* every step up to save done and save returned, and for the model_uri
\* this save returned, which no other version has; a run that returns has
\* created its version, a run that fails in any step before the register
\* call, or in the register call itself, creates none, and the versions of
\* the run before stay as they were.
C22_RegisterOnce ==
  Training =>
    /\ Cardinality(RegisteredNow) <= 1
    /\ Len(tr.registry) <= tr.run
    /\ \A i \in DOMAIN tr.registry :
         tr.registry[i].model_uri[2] \in 1..tr.run
    /\ \A i \in RegisteredNow :
         /\ BodySteps = TrainingPlan
         /\ tr.status = "returned"
         /\ Cardinality(SavedNow) = 1
         /\ \A j \in SavedNow : tr.saved[j].model_uri = tr.registry[i].model_uri
         /\ i = Len(tr.registry)
    /\ \A i, j \in DOMAIN tr.registry :
         tr.registry[i].model_uri = tr.registry[j].model_uri => i = j
    /\ tr.status = "returned" => RegisteredNow # {}
    /\ FailedBefore("register") => RegisteredNow = {}
    /\ tr.status \notin {"running", "returned"} => RegisteredNow = {}
    /\ tr.run = 2 /\ tr.prev[1].status = "returned" =>
         tr.registry[1].model_uri = <<"runs:", 1, "model">>

C22_Witness ==
  /\ Training
  /\ tr.run = 2
  /\ tr.status = "returned"
  /\ tr.prev[1].status = "returned"
  /\ Len(tr.registry) = 2
  /\ tr.registry[2].model_uri = tr.saved[2].model_uri
  /\ tr.registry[2].model_uri # tr.registry[1].model_uri


Tuning == tr.job = "TuningJob"

\* C23: a tuning run takes its steps in the order read the inputs, validate
\* them, read the targets, validate them, search; no step of it saves a
\* model artifact, registers a version or changes the stage of one: the
\* saved artifacts and the registry stay as the run found them.
C23_TuningFrame ==
  [][Tuning =>
       /\ tr'.saved = tr.saved
       /\ tr'.registry = tr.registry
       /\ IsPrefix(SelectSeq(tr'.steps, LAMBDA s : s # "end_run"), TuningPlan)
       /\ tr'.job = tr.job]_vars

C23_Witness ==
  /\ Tuning
  /\ tr.status = "returned"
  /\ BodySteps = TuningPlan
  /\ Len(tr.registry) = 1
  /\ tr.registry[1].current_stage = "Production"
  /\ Len(tr.saved) = 1


\* The literal the claim names for each column.
ClaimedLiterals ==
  [MERCHANT_NAME |-> "No merchant", DESCRIPTION |-> "No Description",
   TYPE_OF_PAYMENT |-> "No type payment"]

\* The features of the file's rows, duplicates dropped, as they pass the
\* schema check.
Validated == FeaturesOf(drop_duplicates(tr.file))

\* C24: in a training run that has passed the feature-schema validation,
\* the rows that go to the split, the fits and the scoring are the
\* validated rows with a missing MERCHANT_NAME replaced by "No merchant", a
\* missing DESCRIPTION by "No Description" and a missing TYPE_OF_PAYMENT by
\* "No type payment", every other value as it was: none of them has a
\* missing value in these three columns.
C24_ImputationLiterals ==
  Training /\ Attempted("split") =>
    /\ Len(tr.inputs) = Len(Validated)
    /\ \A i \in DOMAIN tr.inputs :
         /\ tr.inputs[i].AMOUNT = Validated[i].AMOUNT
         /\ \A c \in DOMAIN ClaimedLiterals :
              /\ tr.inputs[i][c] # "NaN"
              /\ tr.inputs[i][c] = IF Validated[i][c] = "NaN"
                                   THEN ClaimedLiterals[c]
                                   ELSE Validated[i][c]


\* The command line as the user wrote it. Up to a "--" a string that
\* follows a -e, with nothing but strings in between, is an extra; every
\* other string is a positional file.
DashDash ==
  Min({i \in 1..Len(argv) : argv[i] = "--"} \cup {Len(argv) + 1})

IsExtraAt(i) ==
  /\ argv[i] \in Sources
  /\ i < DashDash
  /\ \E j \in 1..(i - 1) :
       /\ argv[j] = "-e"
       /\ \A m \in (j + 1)..(i - 1) : argv[m] \in Sources

IsFileAt(i) == argv[i] \in Sources /\ ~IsExtraAt(i)

LastExtrasOption ==
  Max({j \in 1..Len(argv) : argv[j] = "-e" /\ j < DashDash} \cup {0})

RECURSIVE TokensAt(_, _)
TokensAt(P, i) ==
  IF i > Len(argv) THEN <<>>
  ELSE (IF i \in P THEN <<argv[i]>> ELSE <<>>) \o TokensAt(P, i + 1)

FilesGiven == TokensAt({i \in 1..Len(argv) : IsFileAt(i)}, 1)

ExtrasGiven == TokensAt({i \in 1..Len(argv) : IsExtraAt(i)}, 1)

LastExtrasGiven ==
  TokensAt({i \in 1..Len(argv) : IsExtraAt(i) /\ i > LastExtrasOption}, 1)

\* C25 as stated: the merged config is that of all positional files in
\* their order followed by all strings given to -e options in their order,
\* wherever they stand on the command line, a later one overriding an
\* earlier one.
C25_FilesThenAllExtras == Merged => LastWins(config, FilesGiven \o ExtrasGiven)

\* C25, amended: the merged config is that of all positional files in
\* their order followed by the strings given to the last -e option in their
\* order, wherever they stand on the command line, a later one overriding
\* an earlier one; the strings of an earlier -e option are in neither list.
C25_FilesThenLastExtras ==
  Merged =>
    /\ args.files = FilesGiven
    /\ args.extras = LastExtrasGiven
    /\ \A k \in KeysOf(LastExtrasGiven) :
         k \in DOMAIN config /\ config[k] = LastValue(LastExtrasGiven, k)
    /\ \A k \in KeysOf(FilesGiven) \ KeysOf(LastExtrasGiven) :
         k \in DOMAIN config /\ config[k] = LastValue(FilesGiven, k)
    /\ DOMAIN config = KeysOf(FilesGiven) \cup KeysOf(LastExtrasGiven)

\* A file that stands after an extra on the command line, both with a key,
\* and the extra's value in the merged config.
C25_Witness ==
  /\ Merged
  /\ \E i, j \in 1..Len(argv) :
       /\ i < j
       /\ IsExtraAt(i)
       /\ IsFileAt(j)
       /\ \E k \in DOMAIN Content[argv[i]] \cap DOMAIN Content[argv[j]] :
            /\ Content[argv[i]][k] # Content[argv[j]][k]
            /\ config[k] = Content[argv[i]][k]


\* A held-out row has a label that no row of the train split has.
UnseenHeldOutLabel ==
  Range(iloc(tr.targets, tr.test_index))
    \ Range(iloc(tr.targets, tr.train_index)) # {}

\* A held-out row has a merchant that no row of the train split has.
UnseenHeldOutMerchant ==
  Range(MerchantsOf(iloc(tr.inputs, tr.test_index)))
    \ Range(MerchantsOf(iloc(tr.inputs, tr.train_index))) # {}

LastStep == BodySteps[Len(BodySteps)]

\* Nothing of the run is logged, refitted, signed, saved or registered.
NothingPersisted ==
  /\ tr.metrics = <<>>
  /\ \A step \in {"refit", "sign", "save", "register"} : ~Attempted(step)
  /\ SavedNow = {}
  /\ RegisteredNow = {}

\* C26: the metrics of a training run come from the held-out targets and
\* predictions encoded with the encoder of the fit on the train split; a
\* run whose held-out targets have a label that the train split has not
\* fails with a ValueError in the scoring step, with no metric logged and
\* nothing refitted, signed, saved or registered.
C26_UnseenLabelFailsAtScoring ==
  Training =>
    /\ \A i \in DOMAIN tr.metrics : SignedValue(i)
    /\ Attempted("fit") /\ UnseenHeldOutLabel =>
         /\ NothingPersisted
         /\ tr.status # "returned"
         /\ tr.status # "running" =>
              tr.status = "ValueError" /\ LastStep = "score"


Called == pm.pc = "ready" /\ pm.calls > 0

Declared(name) == name \in DeclaredFields[pm.before.KIND]

\* The position of the first parameter with one of the names, 0 if none.
FirstOf(names) ==
  Min({i \in DOMAIN pm.params : pm.params[i][1] \in names} \cup {Len(pm.params) + 1})
    % (Len(pm.params) + 1)

\* The map as it is with the first n parameters written into it, for the
\* names among them that are in keys.
Written(map, keys, n) ==
  [f \in DOMAIN map \cup {pm.params[i][1] : i \in {j \in 1..n : pm.params[j][1] \in keys}} |->
     IF \E i \in 1..n : pm.params[i][1] = f
     THEN pm.params[CHOOSE i \in 1..n : pm.params[i][1] = f][2]
     ELSE map[f]]

\* The outcome of a call in which the names in refused are refused.
SetParamsOutcome(refused) ==
  LET bad == FirstOf(refused)
      n == IF bad = 0 THEN Len(pm.params) ELSE bad - 1
  IN /\ pm.status = IF bad = 0 THEN "returned" ELSE "ValueError"
     /\ pm.model.KIND = pm.before.KIND
     /\ pm.model.fields =
          Written(pm.before.fields, DOMAIN pm.before.fields, n)
     /\ pm.model.attrs =
          Written(pm.before.attrs, ParamNames \ DOMAIN pm.before.fields, n)

\* C27 as stated: set_params applies the parameters in the order given;
\* the first name that is not a declared field of the variant makes the
\* call fail, with the parameters before it applied and nothing else
\* changed; a call with declared names only changes exactly those fields
\* and returns the model.
C27_UndeclaredNameFails ==
  Called => SetParamsOutcome({name \in ParamNames : ~Declared(name)})

\* C27, amended: the same, where the names that make the call fail are
\* those that are not a declared field and do not start with an
\* underscore; a name that starts with an underscore is set on the model
\* object as an attribute beside its fields, and the call goes on.
C27_PlainUndeclaredNameFails ==
  Called =>
    SetParamsOutcome({name \in ParamNames :
                        ~Declared(name) /\ ~startswith_underscore(name)})

C27_Witness ==
  /\ Called
  /\ pm.status = "ValueError"
  /\ Len(pm.params) = 2
  /\ Declared(pm.params[1][1])
  /\ ~Declared(pm.params[2][1])
  /\ pm.model.fields # pm.before.fields


StartFailed == error = "StartError"

\* C28: when a service fails to start in Job.__enter__, the exception
\* leaves main: run() is not called and __exit__ is not called, so no
\* service is stopped, neither the one that failed nor those that had
\* started before it (the logger, and AWS when mlflow is the one to fail).
C28_FailedStart ==
  StartFailed =>
    /\ pc = "done"
    /\ result = "none"
    /\ pending = "none"
    /\ "run" \notin Range(events)
    /\ Range(events) \cap Range(ExitStops) = {}
    /\ Len(JobEvents) < Len(EnterStarts)
    /\ IsPrefix(JobEvents, EnterStarts)

C28_Witness ==
  /\ StartFailed
  /\ JobEvents = <<"start_logger", "start_aws">>


\* No version is configured and the registry has none in the configured
\* stages.
NoLatestVersion ==
  /\ ~tn.version.set
  /\ get_latest_versions(tn.before, tn.latest_version_stages) = {}

\* C29: a transition run with no configured version, against a registry
\* with no version in the configured stages, ends with the ValueError of
\* max() on the empty list: it asks for no transition and every version
\* keeps the stage it had.
C29_NoVersionNoTransition ==
  tn.pc = "done" /\ NoLatestVersion =>
    /\ tn.status = "ValueError"
    /\ tn.requests = <<>>
    /\ tn.registry = tn.before

C29_Witness ==
  /\ tn.pc = "done"
  /\ NoLatestVersion
  /\ tn.latest_version_stages = Some({"Production"})
  /\ tn.before[9] = "Staging"
  /\ tn.status = "ValueError"
  /\ tn.registry[9] = "Staging"


\* A job has been entered, or an entry has been tried, in the process.
AfterEntries == lg.entries > 0

LastStartReturned == lg.started = "ok"

\* The one handler is that of the configuration started last.
OneSink ==
  /\ Len(lg.handlers) = 1
  /\ lg.handlers[1].config = lg.config
  /\ lg.handlers[1].id = lg.next_id - 1

\* C30 as stated: after any sequence of job entries and exits the logger
\* has exactly one sink, that of the most recent LoggerService.start.
C30_AlwaysOneSink == AfterEntries => OneSink

\* C30, amended: after any sequence of job entries and exits the logger
\* has exactly one sink, that of the most recent LoggerService.start, when
\* this start returned, and no sink when it raised: start removes every
\* sink before it adds its own, a failing add installs nothing, and the
\* stops remove nothing.
C30_OneSinkOfLastStart ==
  AfterEntries =>
    IF LastStartReturned THEN OneSink ELSE lg.handlers = <<>>

C30_Witness ==
  /\ lg.entries = 2
  /\ lg.pc = "out"
  /\ lg.error = "none"
  /\ LastStartReturned
  /\ lg.config = [sink |-> "run.log", level |-> "INFO"]
  /\ lg.handlers = <<[id |-> 2, config |-> lg.config]>>

====
